---- MODULE Spec2Model ----
(***************************************************************************)
(* Config observers of the kube-apiserver operator, package                *)
(* pkg/operator/configobservation/auth:                                    *)
(*   - ObserveExternalOIDC, the variant that sets the --oidc-* arguments   *)
(*     and mirrors the CA bundle configmap (external_oidc.go);             *)
(*   - ObserveExternalOIDC, the variant that sets --authentication-config  *)
(*     and mirrors the structured auth-config configmap;                   *)
(*   - ObserveRoleBindingRestrictionPlugins (rolebindingrestrictions.go).  *)
(*                                                                         *)
(* An observer pass is a function of the listers' snapshot (feature gates, *)
(* authentications.config/cluster, configmaps), of the existing config and *)
(* of the answer of the resource syncer; it returns a config and errors    *)
(* and has two side effects: SyncConfigMap requests and recorder events.   *)
(*                                                                         *)
(* Config trees are functions from paths (tuples of field names) to leaf   *)
(* values.  A nil map and an empty map are one value, EmptyTree, as        *)
(* equality.Semantic.DeepEqual has them.                                   *)
(***************************************************************************)
EXTENDS Integers, Sequences, FiniteSets, TLC

VARIABLES
    variant,   \* which ObserveExternalOIDC the build holds: "args" | "authConfig"
    gates,     \* featureGateAccessor: [observed, err, enabled]
    auth,      \* AuthConfigLister.Get("cluster"): [st, type, providers]
    cms,       \* ConfigMapLister: location -> [st, data]
    existing,  \* the existingConfig the driver hands to the next pass
    out,       \* what the last pass returned and did
    post,      \* what followed the last pass: [mirrored, clean]
    edits,     \* number of upstream changes so far
    call       \* the last direct cmNeedsSync call and its result

vars == <<variant, gates, auth, cms, existing, out, post, edits, call>>

\* ------------------------------------------------------------------ bounds

\* Changes of a pass's inputs (gates, authentication resource, configmaps,
\* existing config from outside) in one run.
MaxEdits == 1

\* Claim validation rules of a provider.
MaxRules == 2

\* ------------------------------------------------------- program constants

eventComponentName == "ObserveExternalOIDC"
componentName == "kube-apiserver"
caBundleSourceNamespace == "openshift-config"
TargetOIDCCAConfigMapName == "oidc-serving-ca-bundle"
staticCABundleFilePath == "/etc/kubernetes/static-pod-resources/configmaps/oidc-serving-ca-bundle/ca-bundle.crt"
apiServerArgumentsPath == "apiServerArguments"
TargetNamespace == "openshift-kube-apiserver"
caBundleKey == "ca-bundle.crt"

oidcIssuerURLPath == "oidc-issuer-url"
oidcClientIDPath == "oidc-client-id"
oidcUsernameClaimPath == "oidc-username-claim"
oidcUsernamePrefixPath == "oidc-username-prefix"
oidcGroupsClaimPath == "oidc-groups-claim"
oidcGroupsPrefixPath == "oidc-groups-prefix"
oidcRequiredClaimPath == "oidc-required-claim"
oidcCAFilePath == "oidc-ca-file"

\* The eight paths, in the order both loops of external_oidc.go walk them.
oidcPaths ==
    << oidcIssuerURLPath, oidcClientIDPath, oidcUsernameClaimPath,
       oidcUsernamePrefixPath, oidcGroupsClaimPath, oidcGroupsPrefixPath,
       oidcRequiredClaimPath, oidcCAFilePath >>

\* ----------------------------------------------------------- config trees

Slice(s) == [kind |-> "slice", elems |-> s]
Scalar(v) == [kind |-> "scalar", elems |-> <<v>>]

EmptyTree == [p \in {} |-> Slice(<<>>)]

ArgPath(name) == <<apiServerArgumentsPath, name>>

SeqToSet(s) == {s[i] : i \in 1..Len(s)}

\* unstructured.NestedSlice: (value, found, error).  A missing field is not
\* found and no error; a field that is no []interface{} is an error.
NestedSlice(obj, fields) ==
    IF fields \notin DOMAIN obj
    THEN [val |-> <<>>, found |-> FALSE, err |-> ""]
    ELSE IF obj[fields].kind # "slice"
         THEN [val |-> <<>>, found |-> FALSE,
               err |-> "accessor error: expected []interface{}"]
         ELSE [val |-> obj[fields].elems, found |-> TRUE, err |-> ""]

\* unstructured.SetNestedSlice on a config this pass built itself.
SetNestedSlice(obj, value, fields) ==
    [p \in (DOMAIN obj) \cup {fields} |->
        IF p = fields THEN Slice(value) ELSE obj[p]]

\* equality.Semantic.DeepEqual of two []interface{}: nil and empty are equal,
\* otherwise element by element, in order.
SemanticDeepEqual(a, b) == a = b

\* ------------------------------------------------------------- configmaps

Loc(ns, name) == <<ns, name>>
emptyResourceLocation == Loc("", "")

NoData == [k \in {} |-> ""]
CMNotFound == [st |-> "notfound", data |-> NoData]
CMError == [st |-> "error", data |-> NoData]
CM(data) == [st |-> "ok", data |-> data]

\* listers.ConfigMapLister().ConfigMaps(ns).Get(name)
GetConfigMap(store, ns, name) ==
    IF Loc(ns, name) \in DOMAIN store THEN store[Loc(ns, name)] ELSE CMNotFound

\* ------------------------------------------------------------ cmNeedsSync

NeedsSync(needsSync, err, sourceRead) ==
    [needsSync |-> needsSync, err |-> err, sourceRead |-> sourceRead]

\* cmCompare by the rule "a key held by exactly one side needs a sync".
cmCompare_EitherSideOnly(existingCM, sourceCM, key) ==
    IF key = ""
    THEN NeedsSync(~(existingCM.data = sourceCM.data), "", TRUE)
    ELSE LET found1 == key \in DOMAIN existingCM.data
             found2 == key \in DOMAIN sourceCM.data
         IN  IF found1 /\ found2
             THEN NeedsSync(existingCM.data[key] # sourceCM.data[key], "", TRUE)
             ELSE IF ~found1 /\ ~found2
                  THEN NeedsSync(FALSE, "key not found in either configmap", TRUE)
                  ELSE NeedsSync(TRUE, "", TRUE)

\* cmCompare that finds two configmaps without the key to be in step.
cmCompare_NeitherIsEqual(existingCM, sourceCM, key) ==
    IF key = ""
    THEN NeedsSync(~(existingCM.data = sourceCM.data), "", TRUE)
    ELSE LET found1 == key \in DOMAIN existingCM.data
             found2 == key \in DOMAIN sourceCM.data
         IN  IF found1 /\ found2
             THEN NeedsSync(existingCM.data[key] # sourceCM.data[key], "", TRUE)
             ELSE IF ~found2
                  THEN IF ~found1
                       THEN NeedsSync(FALSE, "", TRUE)
                       ELSE NeedsSync(FALSE, "key not found in source configmap", TRUE)
                  ELSE NeedsSync(TRUE, "", TRUE)

\* cmCompare that is content with the key being on both sides.
cmCompare_KeyPresence(existingCM, sourceCM, key) ==
    IF key = ""
    THEN NeedsSync(~(existingCM.data = sourceCM.data), "", TRUE)
    ELSE LET found1 == key \in DOMAIN existingCM.data
             found2 == key \in DOMAIN sourceCM.data
         IN  IF found1 /\ found2
             THEN NeedsSync(FALSE, "", TRUE)
             ELSE IF ~found2
                  THEN IF ~found1
                       THEN NeedsSync(FALSE, "key not found in either configmap", TRUE)
                       ELSE NeedsSync(FALSE, "key not found in source configmap", TRUE)
                  ELSE NeedsSync(TRUE, "", TRUE)

\* The comparison of the two configmaps once both were read.
cmCompare(existingCM, sourceCM, key) ==
    IF key = ""
    THEN NeedsSync(~(existingCM.data = sourceCM.data), "", TRUE)
    ELSE LET found1 == key \in DOMAIN existingCM.data
             found2 == key \in DOMAIN sourceCM.data
         IN  IF found1 /\ found2
             THEN NeedsSync(existingCM.data[key] # sourceCM.data[key], "", TRUE)
             ELSE IF ~found2
                  THEN IF ~found1
                       THEN NeedsSync(FALSE, "key not found in either configmap", TRUE)
                       ELSE NeedsSync(FALSE, "key not found in source configmap", TRUE)
                  ELSE NeedsSync(TRUE, "", TRUE)

\* cmNeedsSync that reads the source configmap before it looks at the target.
cmNeedsSync_SourceFirst(store, destinationCMName, destinationCMNamespace, sourceCMName, sourceCMNamespace, key) ==
    LET existingCM == GetConfigMap(store, destinationCMNamespace, destinationCMName)
        sourceCM == GetConfigMap(store, sourceCMNamespace, sourceCMName)
    IN  IF sourceCMName # "" /\ sourceCM.st = "notfound"
        THEN NeedsSync(FALSE, "configmap not found", TRUE)
        ELSE IF sourceCMName # "" /\ sourceCM.st = "error"
        THEN NeedsSync(FALSE, "configmap lookup failed", TRUE)
        ELSE IF existingCM.st = "notfound"
        THEN NeedsSync(TRUE, "", sourceCMName # "")
        ELSE IF existingCM.st = "error"
        THEN NeedsSync(FALSE, "configmap lookup failed", sourceCMName # "")
        ELSE IF sourceCMName = ""
        THEN NeedsSync(TRUE, "", FALSE)
        ELSE cmCompare(existingCM, sourceCM, key)

\* cmNeedsSync: (needsSync, error), and whether the source configmap was read.
cmNeedsSync(store, destinationCMName, destinationCMNamespace, sourceCMName, sourceCMNamespace, key) ==
    LET existingCM == GetConfigMap(store, destinationCMNamespace, destinationCMName)
        sourceCM == GetConfigMap(store, sourceCMNamespace, sourceCMName)
    IN  IF existingCM.st = "notfound"
        THEN NeedsSync(TRUE, "", FALSE)
        ELSE IF existingCM.st = "error"
        THEN NeedsSync(FALSE, "configmap lookup failed", FALSE)
        ELSE IF sourceCMName = ""
        THEN NeedsSync(TRUE, "", FALSE)
        ELSE IF sourceCM.st = "notfound"
        THEN NeedsSync(FALSE, "configmap not found", TRUE)
        ELSE IF sourceCM.st = "error"
        THEN NeedsSync(FALSE, "configmap lookup failed", TRUE)
        ELSE cmCompare(existingCM, sourceCM, key)

\* --------------------------------------------------------- resource syncer

\* resourceSyncer.SyncConfigMap(destination, source): the request is taken,
\* or refused with an error when the syncer fails.
SyncRequest(destination, source) == [dst |-> destination, src |-> source]

errSync == "sync failed"
SyncConfigMap(syncFails, destination, source) ==
    IF syncFails
    THEN [err |-> errSync, syncs |-> <<>>]
    ELSE [err |-> "", syncs |-> <<SyncRequest(destination, source)>>]

\* syncCABundleIfNeeded: (synced, error), the requests taken by the syncer
\* and the number of SyncConfigMap calls made.
\* syncCABundleIfNeeded that keeps the source namespace of a deletion.
syncCABundleIfNeeded_KeepNamespace(store, syncFails, provider) ==
    LET decided == cmNeedsSync(store, TargetOIDCCAConfigMapName, TargetNamespace,
                               provider.caName, caBundleSourceNamespace, caBundleKey)
        caBundleSyncNeeded == IF decided.err # "" THEN TRUE ELSE decided.needsSync
        req == SyncConfigMap(syncFails,
                             Loc(TargetNamespace, TargetOIDCCAConfigMapName),
                             Loc(caBundleSourceNamespace, provider.caName))
    IN  IF ~caBundleSyncNeeded
        THEN [synced |-> FALSE, err |-> "", syncs |-> <<>>, calls |-> 0]
        ELSE IF req.err # ""
        THEN [synced |-> FALSE, err |-> req.err, syncs |-> <<>>, calls |-> 1]
        ELSE [synced |-> TRUE, err |-> "", syncs |-> req.syncs, calls |-> 1]

\* syncCABundleIfNeeded that returns the error of cmNeedsSync.
syncCABundleIfNeeded_FatalDecision(store, syncFails, provider) ==
    LET decided == cmNeedsSync(store, TargetOIDCCAConfigMapName, TargetNamespace,
                               provider.caName, caBundleSourceNamespace, caBundleKey)
        sourceName == provider.caName
        sourceNamespace == IF sourceName = "" THEN "" ELSE caBundleSourceNamespace
        req == SyncConfigMap(syncFails,
                             Loc(TargetNamespace, TargetOIDCCAConfigMapName),
                             Loc(sourceNamespace, sourceName))
    IN  IF decided.err # ""
        THEN [synced |-> FALSE, err |-> decided.err, syncs |-> <<>>, calls |-> 0]
        ELSE IF ~decided.needsSync
        THEN [synced |-> FALSE, err |-> "", syncs |-> <<>>, calls |-> 0]
        ELSE IF req.err # ""
        THEN [synced |-> FALSE, err |-> req.err, syncs |-> <<>>, calls |-> 1]
        ELSE [synced |-> TRUE, err |-> "", syncs |-> req.syncs, calls |-> 1]

\* syncCABundleIfNeeded of external_oidc.go.
syncCABundleIfNeeded(store, syncFails, provider) ==
    LET decided == cmNeedsSync(store, TargetOIDCCAConfigMapName, TargetNamespace,
                               provider.caName, caBundleSourceNamespace, caBundleKey)
        caBundleSyncNeeded == IF decided.err # "" THEN TRUE ELSE decided.needsSync
        sourceName == provider.caName
        sourceNamespace == IF sourceName = "" THEN "" ELSE caBundleSourceNamespace
        req == SyncConfigMap(syncFails,
                             Loc(TargetNamespace, TargetOIDCCAConfigMapName),
                             Loc(sourceNamespace, sourceName))
    IN  IF ~caBundleSyncNeeded
        THEN [synced |-> FALSE, err |-> "", syncs |-> <<>>, calls |-> 0]
        ELSE IF req.err # ""
        THEN [synced |-> FALSE, err |-> req.err, syncs |-> <<>>, calls |-> 1]
        ELSE [synced |-> TRUE, err |-> "", syncs |-> req.syncs, calls |-> 1]

\* ---------------------------------------------------- pass results, errors

\* What a pass returns (tree, errs) and did: events recorded, SyncConfigMap
\* requests the syncer took, SyncConfigMap calls made, and the configChanged
\* flag of observeExternalOIDC.
Result(tree, errs, events, syncs, calls, changed) ==
    [tree |-> tree, errs |-> errs, events |-> events, syncs |-> syncs,
     calls |-> calls, changed |-> changed]

errGates == "featureGates not available"
errAuthLookup == "authentication lookup failed"
errInvalidAuthType == "invalid auth type"
errOneProvider == "exactly one OIDC provider must be configured in authentication.config/cluster resource"
errNoClient == "no OIDC client config found for component kube-apiserver/openshift-kube-apiserver"
errURLParse == "parse: missing protocol scheme"
errHTTPS == "https is required for provider URL"
errClientID == "OIDC client ID not set"
errNilPrefix == "nil username prefix while policy expects one"
errRuleType == "invalid claim validation rule type"
errRuleEmpty == "empty validation rule at index"

evRemoved == "Removed ExternalOIDC configuration"
evCASynced == "ExternalOIDC CA bundle configmap synced"
evChanged == "ExternalOIDC configuration changed"

\* ------------------------------------------------ authentication resource

\* url.Parse on the issuer URLs of the model: the error, or the scheme.
urlParse(rawURL) ==
    CASE rawURL = "https://idp.example.com" -> [err |-> "", scheme |-> "https"]
      [] rawURL = "https://new-idp.example.com" -> [err |-> "", scheme |-> "https"]
      [] rawURL = "http://idp.example.com" -> [err |-> "", scheme |-> "http"]
      [] rawURL = "://idp.example.com" -> [err |-> errURLParse, scheme |-> ""]
      [] OTHER -> [err |-> "", scheme |-> ""]

\* getOIDCClientForComponent: the first client of the first provider with
\* this component name and namespace, or none.
getOIDCClientForComponent(authn, name, namespace) ==
    LET clients == authn.providers[1].clients
        hits == {i \in 1..Len(clients) :
                    clients[i].name = name /\ clients[i].ns = namespace}
    IN  IF hits = {}
        THEN [nil |-> TRUE, id |-> ""]
        ELSE [nil |-> FALSE,
              id |-> clients[CHOOSE i \in hits : \A j \in hits : i <= j].id]

\* fmt.Sprintf("%s=%s", rule.RequiredClaim.Claim, rule.RequiredClaim.RequiredValue)
requiredClaimArg(rule) == rule.claim \o "=" \o rule.value

\* The errors of one claim validation rule, in the order they are appended.
ruleErrs(rule) ==
    (IF rule.type # "RequiredClaim" THEN <<errRuleType>> ELSE <<>>)
    \o (IF rule.nil THEN <<errRuleEmpty>> ELSE <<>>)

RECURSIVE rulesErrs(_)
rulesErrs(rules) ==
    IF rules = <<>> THEN <<>>
    ELSE ruleErrs(Head(rules)) \o rulesErrs(Tail(rules))

\* The required claims listed from the last rule to the first.
requiredClaimValues_LastFirst(rules) ==
    [i \in 1..Len(rules) |->
        IF ruleErrs(rules[Len(rules) + 1 - i]) = <<>>
        THEN requiredClaimArg(rules[Len(rules) + 1 - i]) ELSE ""]

\* oidcConfigValues[oidcRequiredClaimPath]: one entry per rule, left nil
\* (here "") for a rule with errors.
requiredClaimValues(rules) ==
    [i \in 1..Len(rules) |->
        IF ruleErrs(rules[i]) = <<>> THEN requiredClaimArg(rules[i]) ELSE ""]

\* ----------------------------------------------------- observeExternalOIDC

\* The errs accumulated by the field checks, in the order of the checks.
\* The field checks that stop at the first error.
oidcFieldErrs_FirstOnly(provider, clientConfig) ==
    LET issuerURL == urlParse(provider.url)
        all == (IF issuerURL.err # "" THEN <<issuerURL.err>>
                ELSE IF issuerURL.scheme # "https" THEN <<errHTTPS>> ELSE <<>>)
               \o (IF clientConfig.id # "" THEN <<>> ELSE <<errClientID>>)
               \o (IF provider.prefixPolicy = "Prefix" /\ provider.prefix.nil
                   THEN <<errNilPrefix>> ELSE <<>>)
               \o rulesErrs(provider.rules)
    IN  IF all = <<>> THEN <<>> ELSE <<all[1]>>

\* The field checks without the client id check.
oidcFieldErrs_NoClientID(provider, clientConfig) ==
    LET issuerURL == urlParse(provider.url)
    IN  (IF issuerURL.err # "" THEN <<issuerURL.err>>
         ELSE IF issuerURL.scheme # "https" THEN <<errHTTPS>> ELSE <<>>)
        \o (IF provider.prefixPolicy = "Prefix" /\ provider.prefix.nil
            THEN <<errNilPrefix>> ELSE <<>>)
        \o rulesErrs(provider.rules)

oidcFieldErrs(provider, clientConfig) ==
    LET issuerURL == urlParse(provider.url)
    IN  (IF issuerURL.err # "" THEN <<issuerURL.err>>
         ELSE IF issuerURL.scheme # "https" THEN <<errHTTPS>> ELSE <<>>)
        \o (IF clientConfig.id # "" THEN <<>> ELSE <<errClientID>>)
        \o (IF provider.prefixPolicy = "Prefix" /\ provider.prefix.nil
            THEN <<errNilPrefix>> ELSE <<>>)
        \o rulesErrs(provider.rules)

\* The configured paths when the claim mappings are set whether or not the
\* provider fills them.
oidcConfigured_Zeroed(provider, clientConfig) ==
    LET issuerURL == urlParse(provider.url)
    IN  {p \in SeqToSet(oidcPaths) :
            \/ p = oidcIssuerURLPath /\ issuerURL.err = "" /\ issuerURL.scheme = "https"
            \/ p = oidcClientIDPath /\ clientConfig.id # ""
            \/ p = oidcUsernameClaimPath
            \/ p = oidcGroupsClaimPath
            \/ p = oidcGroupsPrefixPath
            \/ p = oidcUsernamePrefixPath /\ provider.prefixPolicy = "NoPrefix"
            \/ p = oidcUsernamePrefixPath /\ provider.prefixPolicy = "Prefix"
                                          /\ ~provider.prefix.nil
            \/ p = oidcRequiredClaimPath /\ Len(provider.rules) > 0
            \/ p = oidcCAFilePath /\ provider.caName # ""}

\* The paths oidcConfigValues holds after the field checks.
oidcConfigured(provider, clientConfig) ==
    LET issuerURL == urlParse(provider.url)
    IN  {p \in SeqToSet(oidcPaths) :
            \/ p = oidcIssuerURLPath /\ issuerURL.err = "" /\ issuerURL.scheme = "https"
            \/ p = oidcClientIDPath /\ clientConfig.id # ""
            \/ p = oidcUsernameClaimPath /\ provider.usernameClaim # ""
            \/ p = oidcGroupsClaimPath /\ provider.groupsClaim # ""
            \/ p = oidcGroupsPrefixPath /\ provider.groupsPrefix # ""
            \/ p = oidcUsernamePrefixPath /\ provider.prefixPolicy = "NoPrefix"
            \/ p = oidcUsernamePrefixPath /\ provider.prefixPolicy = "Prefix"
                                          /\ ~provider.prefix.nil
            \/ p = oidcRequiredClaimPath /\ Len(provider.rules) > 0
            \/ p = oidcCAFilePath /\ provider.caName # ""}

\* oidcConfigValues that passes the prefix string under every policy.
oidcConfigValues_PrefixString(provider, clientConfig) ==
    [p \in oidcConfigured(provider, clientConfig) |->
        CASE p = oidcIssuerURLPath -> <<provider.url>>
          [] p = oidcClientIDPath -> <<clientConfig.id>>
          [] p = oidcUsernameClaimPath -> <<provider.usernameClaim>>
          [] p = oidcGroupsClaimPath -> <<provider.groupsClaim>>
          [] p = oidcGroupsPrefixPath -> <<provider.groupsPrefix>>
          [] p = oidcUsernamePrefixPath -> <<provider.prefix.str>>
          [] p = oidcRequiredClaimPath -> requiredClaimValues(provider.rules)
          [] p = oidcCAFilePath -> <<staticCABundleFilePath>>]

\* oidcConfigValues: path -> []interface{}, for the configured paths.
oidcConfigValues(provider, clientConfig) ==
    [p \in oidcConfigured(provider, clientConfig) |->
        CASE p = oidcIssuerURLPath -> <<provider.url>>
          [] p = oidcClientIDPath -> <<clientConfig.id>>
          [] p = oidcUsernameClaimPath -> <<provider.usernameClaim>>
          [] p = oidcGroupsClaimPath -> <<provider.groupsClaim>>
          [] p = oidcGroupsPrefixPath -> <<provider.groupsPrefix>>
          [] p = oidcUsernamePrefixPath ->
                IF provider.prefixPolicy = "NoPrefix" THEN <<"-">>
                ELSE <<provider.prefix.str>>
          [] p = oidcRequiredClaimPath -> requiredClaimValues(provider.rules)
          [] p = oidcCAFilePath -> <<staticCABundleFilePath>>]

\* The value the loop compares at a path: oidcConfigValues[path], nil when
\* the path is not configured.
newValAt(values, path) == IF path \in DOMAIN values THEN values[path] ELSE <<>>

\* A loop that compares the first path, oidc-issuer-url, only.
changeLoop_FirstPathOnly(existingConfig, values, i, configChanged, errs) ==
    [changed |-> ~SemanticDeepEqual(
                     NestedSlice(existingConfig, ArgPath(oidcPaths[1])).val,
                     newValAt(values, oidcPaths[1])),
     errs |-> errs]

\* The loop over the eight paths from path i on: configChanged and the errs
\* appended.  A path is read only while configChanged is still false.
RECURSIVE changeLoop(_, _, _, _, _)
changeLoop(existingConfig, values, i, configChanged, errs) ==
    IF i > Len(oidcPaths)
    THEN [changed |-> configChanged, errs |-> errs]
    ELSE LET got == NestedSlice(existingConfig, ArgPath(oidcPaths[i]))
         IN  IF configChanged
             THEN changeLoop(existingConfig, values, i + 1, TRUE, errs)
             ELSE IF got.err # ""
             THEN changeLoop(existingConfig, values, i + 1, FALSE, Append(errs, got.err))
             ELSE changeLoop(existingConfig, values, i + 1,
                             ~SemanticDeepEqual(got.val, newValAt(values, oidcPaths[i])),
                             errs)

\* observedConfig: every configured path set under apiServerArguments.
observedConfigOf(values) ==
    [f \in {ArgPath(p) : p \in DOMAIN values} |-> Slice(values[f[2]])]

\* observeExternalOIDC, from the field checks' end (line 193) on.
publishOIDC(provider, clientConfig, store, syncFails, existingConfig) ==
    LET values == oidcConfigValues(provider, clientConfig)
        ca == syncCABundleIfNeeded(store, syncFails, provider)
        loop == changeLoop(existingConfig, values, 1, FALSE, <<>>)
    IN  IF ca.err # ""
        THEN Result(existingConfig, <<ca.err>>, <<>>, ca.syncs, ca.calls, FALSE)
        ELSE Result(observedConfigOf(values), loop.errs,
                    (IF ca.synced THEN <<evCASynced>> ELSE <<>>)
                    \o (IF loop.changed THEN <<evChanged>> ELSE <<>>),
                    ca.syncs, ca.calls, loop.changed)

\* observeExternalOIDC that runs the field checks on a provider without a
\* client entry for the component.
observeExternalOIDC_ValidatesFirst(authn, store, syncFails, existingConfig) ==
    IF Len(authn.providers) # 1
    THEN Result(existingConfig, <<errOneProvider>>, <<>>, <<>>, 0, FALSE)
    ELSE LET provider == authn.providers[1]
             clientConfig == getOIDCClientForComponent(authn, componentName, TargetNamespace)
             errs == oidcFieldErrs(provider, clientConfig)
         IN  IF clientConfig.nil
             THEN Result(existingConfig, <<errNoClient>> \o errs, <<>>, <<>>, 0, FALSE)
             ELSE IF Len(errs) > 0
             THEN Result(existingConfig, errs, <<>>, <<>>, 0, FALSE)
             ELSE publishOIDC(provider, clientConfig, store, syncFails, existingConfig)

\* observeExternalOIDC of external_oidc.go.
observeExternalOIDC(authn, store, syncFails, existingConfig) ==
    IF Len(authn.providers) # 1
    THEN Result(existingConfig, <<errOneProvider>>, <<>>, <<>>, 0, FALSE)
    ELSE LET provider == authn.providers[1]
             clientConfig == getOIDCClientForComponent(authn, componentName, TargetNamespace)
             errs == oidcFieldErrs(provider, clientConfig)
         IN  IF clientConfig.nil
             THEN Result(existingConfig, <<errNoClient>>, <<>>, <<>>, 0, FALSE)
             ELSE IF Len(errs) > 0
             THEN Result(existingConfig, errs, <<>>, <<>>, 0, FALSE)
             ELSE publishOIDC(provider, clientConfig, store, syncFails, existingConfig)

\* oidcConfigExists: (exists, error), walking the paths in order.
RECURSIVE oidcConfigExistsFrom(_, _)
oidcConfigExistsFrom(config, i) ==
    IF i > Len(oidcPaths)
    THEN [exists |-> FALSE, err |-> ""]
    ELSE LET got == NestedSlice(config, ArgPath(oidcPaths[i]))
         IN  IF got.err # "" THEN [exists |-> FALSE, err |-> got.err]
             ELSE IF got.found THEN [exists |-> TRUE, err |-> ""]
             ELSE oidcConfigExistsFrom(config, i + 1)

\* oidcConfigExists that never finds an oidc-* value.
oidcConfigExists_Never(config) == [exists |-> FALSE, err |-> ""]

oidcConfigExists(config) == oidcConfigExistsFrom(config, 1)

\* The switch on auth.Spec.Type that goes on after a failed SyncConfigMap.
observeByType_IgnoresSyncError(authn, store, syncFails, existingConfig) ==
    LET req == SyncConfigMap(syncFails,
                             Loc(TargetNamespace, TargetOIDCCAConfigMapName),
                             emptyResourceLocation)
        had == oidcConfigExists(existingConfig)
    IN  IF authn.type \in {"IntegratedOAuth", "None", ""}
        THEN IF had.err # ""
             THEN Result(existingConfig, <<had.err>>, <<>>, req.syncs, 1, FALSE)
             ELSE Result(EmptyTree, <<>>,
                         IF had.exists THEN <<evRemoved>> ELSE <<>>,
                         req.syncs, 1, FALSE)
        ELSE IF authn.type = "OIDC"
        THEN observeExternalOIDC(authn, store, syncFails, existingConfig)
        ELSE Result(existingConfig, <<errInvalidAuthType>>, <<>>, <<>>, 0, FALSE)

\* The switch on auth.Spec.Type of ObserveExternalOIDC.
observeByType(authn, store, syncFails, existingConfig) ==
    LET req == SyncConfigMap(syncFails,
                             Loc(TargetNamespace, TargetOIDCCAConfigMapName),
                             emptyResourceLocation)
        had == oidcConfigExists(existingConfig)
    IN  IF authn.type \in {"IntegratedOAuth", "None", ""}
        THEN IF req.err # ""
             THEN Result(existingConfig, <<req.err>>, <<>>, <<>>, 1, FALSE)
             ELSE IF had.err # ""
             THEN Result(existingConfig, <<had.err>>, <<>>, req.syncs, 1, FALSE)
             ELSE Result(EmptyTree, <<>>,
                         IF had.exists THEN <<evRemoved>> ELSE <<>>,
                         req.syncs, 1, FALSE)
        ELSE IF authn.type = "OIDC"
        THEN observeExternalOIDC(authn, store, syncFails, existingConfig)
        ELSE Result(existingConfig, <<errInvalidAuthType>>, <<>>, <<>>, 0, FALSE)

\* ObserveExternalOIDC that goes on when the gates are unobserved or disabled.
ObserveExternalOIDC_Ungated(fg, authn, store, syncFails, existingConfig) ==
    IF fg.observed /\ fg.err
    THEN Result(existingConfig, <<errGates>>, <<>>, <<>>, 0, FALSE)
    ELSE IF authn.st = "notfound"
    THEN Result(existingConfig, <<>>, <<>>, <<>>, 0, FALSE)
    ELSE IF authn.st = "error"
    THEN Result(existingConfig, <<errAuthLookup>>, <<>>, <<>>, 0, FALSE)
    ELSE observeByType(authn, store, syncFails, existingConfig)

\* ObserveExternalOIDC that takes a missing authentication resource for one
\* of type None.
ObserveExternalOIDC_NotFoundResets(fg, authn, store, syncFails, existingConfig) ==
    IF ~fg.observed
    THEN Result(existingConfig, <<>>, <<>>, <<>>, 0, FALSE)
    ELSE IF fg.err
    THEN Result(existingConfig, <<errGates>>, <<>>, <<>>, 0, FALSE)
    ELSE IF ~fg.enabled
    THEN Result(existingConfig, <<>>, <<>>, <<>>, 0, FALSE)
    ELSE IF authn.st = "notfound"
    THEN observeByType([authn EXCEPT !.type = "None"], store, syncFails, existingConfig)
    ELSE IF authn.st = "error"
    THEN Result(existingConfig, <<errAuthLookup>>, <<>>, <<>>, 0, FALSE)
    ELSE observeByType(authn, store, syncFails, existingConfig)

\* externalOIDC.ObserveExternalOIDC of external_oidc.go.
ObserveExternalOIDC(fg, authn, store, syncFails, existingConfig) ==
    IF ~fg.observed
    THEN Result(existingConfig, <<>>, <<>>, <<>>, 0, FALSE)
    ELSE IF fg.err
    THEN Result(existingConfig, <<errGates>>, <<>>, <<>>, 0, FALSE)
    ELSE IF ~fg.enabled
    THEN Result(existingConfig, <<>>, <<>>, <<>>, 0, FALSE)
    ELSE IF authn.st = "notfound"
    THEN Result(existingConfig, <<>>, <<>>, <<>>, 0, FALSE)
    ELSE IF authn.st = "error"
    THEN Result(existingConfig, <<errAuthLookup>>, <<>>, <<>>, 0, FALSE)
    ELSE observeByType(authn, store, syncFails, existingConfig)

\* ------------------------------- ObserveExternalOIDC, structured auth-config

argAuthConfig == "authentication-config"
SourceAuthConfigCMNamespace == "openshift-config-managed"
AuthConfigCMName == "auth-config"
authConfigKeyName == "auth-config.json"
authConfigFilePath == "/etc/kubernetes/static-pod-resources/configmaps/auth-config/auth-config.json"

evAuthNotFound == "authentications.config.openshift.io/cluster: not found"
evDeletedCM == "deleted configmap openshift-kube-apiserver/auth-config"
evSyncRequested == "sync requested for configmap openshift-config-managed/auth-config to openshift-kube-apiserver/auth-config"
errGetTargetCM == "failed to get configmap openshift-kube-apiserver/auth-config"
errGetSourceCM == "failed to get configmap openshift-config-managed/auth-config"
errAuthConfigInvalid == "configmap openshift-config-managed/auth-config is invalid: key 'auth-config.json' missing or value empty"

\* syncConfigMap that names the source without its namespace.
syncConfigMap_NameOnly(syncFails, sourceName, sourceNamespace) ==
    LET req == SyncConfigMap(syncFails, Loc(TargetNamespace, AuthConfigCMName),
                             Loc("", sourceName))
    IN  IF req.err # ""
        THEN [err |-> req.err, syncs |-> <<>>, events |-> <<>>]
        ELSE [err |-> "", syncs |-> req.syncs,
              events |-> IF sourceName = "" THEN <<evDeletedCM>>
                         ELSE <<evSyncRequested>>]

\* syncConfigMap: the error, the requests taken and the events recorded.
syncConfigMap(syncFails, sourceName, sourceNamespace) ==
    LET req == SyncConfigMap(syncFails, Loc(TargetNamespace, AuthConfigCMName),
                             Loc(sourceNamespace, sourceName))
    IN  IF req.err # ""
        THEN [err |-> req.err, syncs |-> <<>>, events |-> <<>>]
        ELSE [err |-> "", syncs |-> req.syncs,
              events |-> IF sourceName = "" THEN <<evDeletedCM>>
                         ELSE <<evSyncRequested>>]

\* The branch for a type other than OIDC that deletes without looking for the
\* target.
authConfigReset_Unconditional(store, syncFails, existingConfig) ==
    LET req == syncConfigMap(syncFails, "", "")
    IN  IF req.err # ""
        THEN Result(existingConfig, <<req.err>>, <<>>, <<>>, 1, FALSE)
        ELSE Result(EmptyTree, <<>>, req.events, req.syncs, 1, FALSE)

\* The branch for an authentication type other than OIDC.
authConfigReset(store, syncFails, existingConfig) ==
    LET target == GetConfigMap(store, TargetNamespace, AuthConfigCMName)
        req == syncConfigMap(syncFails, "", "")
    IN  IF target.st = "notfound"
        THEN Result(EmptyTree, <<>>, <<>>, <<>>, 0, FALSE)
        ELSE IF target.st = "error"
        THEN Result(existingConfig, <<errGetTargetCM>>, <<>>, <<>>, 0, FALSE)
        ELSE IF req.err # ""
        THEN Result(existingConfig, <<req.err>>, <<>>, <<>>, 1, FALSE)
        ELSE Result(EmptyTree, <<>>, req.events, req.syncs, 1, FALSE)

\* The branch for type OIDC that copies the source in every pass.
authConfigOIDC_AlwaysCopies(store, syncFails, existingConfig) ==
    LET sourceAuthConfig == GetConfigMap(store, SourceAuthConfigCMNamespace, AuthConfigCMName)
        authConfigRaw == IF authConfigKeyName \in DOMAIN sourceAuthConfig.data
                         THEN sourceAuthConfig.data[authConfigKeyName] ELSE ""
        targetAuthConfig == GetConfigMap(store, TargetNamespace, AuthConfigCMName)
        req == syncConfigMap(syncFails, AuthConfigCMName, SourceAuthConfigCMNamespace)
        observedConfig == SetNestedSlice(EmptyTree, <<authConfigFilePath>>, ArgPath(argAuthConfig))
    IN  IF sourceAuthConfig.st = "notfound"
        THEN Result(existingConfig, <<>>, <<>>, <<>>, 0, FALSE)
        ELSE IF sourceAuthConfig.st = "error"
        THEN Result(existingConfig, <<errGetSourceCM>>, <<>>, <<>>, 0, FALSE)
        ELSE IF authConfigRaw = ""
        THEN Result(existingConfig, <<errAuthConfigInvalid>>, <<>>, <<>>, 0, FALSE)
        ELSE IF targetAuthConfig.st = "error"
        THEN Result(existingConfig, <<"configmap lookup failed">>, <<>>, <<>>, 0, FALSE)
        ELSE IF req.err # ""
        THEN Result(existingConfig, <<req.err>>, <<>>, <<>>, 1, FALSE)
        ELSE Result(observedConfig, <<>>, req.events, req.syncs, 1, FALSE)

\* The branch for authentication type OIDC.
authConfigOIDC(store, syncFails, existingConfig) ==
    LET sourceAuthConfig == GetConfigMap(store, SourceAuthConfigCMNamespace, AuthConfigCMName)
        authConfigRaw == IF authConfigKeyName \in DOMAIN sourceAuthConfig.data
                         THEN sourceAuthConfig.data[authConfigKeyName] ELSE ""
        targetAuthConfig == GetConfigMap(store, TargetNamespace, AuthConfigCMName)
        req == syncConfigMap(syncFails, AuthConfigCMName, SourceAuthConfigCMNamespace)
        observedConfig == SetNestedSlice(EmptyTree, <<authConfigFilePath>>, ArgPath(argAuthConfig))
    IN  IF sourceAuthConfig.st = "notfound"
        THEN Result(existingConfig, <<>>, <<>>, <<>>, 0, FALSE)
        ELSE IF sourceAuthConfig.st = "error"
        THEN Result(existingConfig, <<errGetSourceCM>>, <<>>, <<>>, 0, FALSE)
        ELSE IF authConfigRaw = ""
        THEN Result(existingConfig, <<errAuthConfigInvalid>>, <<>>, <<>>, 0, FALSE)
        ELSE IF targetAuthConfig.st = "error"
        THEN Result(existingConfig, <<"configmap lookup failed">>, <<>>, <<>>, 0, FALSE)
        ELSE IF targetAuthConfig.st = "notfound"
                \/ ~(targetAuthConfig.data = sourceAuthConfig.data)
        THEN IF req.err # ""
             THEN Result(existingConfig, <<req.err>>, <<>>, <<>>, 1, FALSE)
             ELSE Result(observedConfig, <<>>, req.events, req.syncs, 1, FALSE)
        ELSE Result(observedConfig, <<>>, <<>>, <<>>, 0, FALSE)

\* externalOIDC.ObserveExternalOIDC of the structured auth-config variant.
ObserveExternalOIDCAuthConfig(fg, authn, store, syncFails, existingConfig) ==
    IF ~fg.observed
    THEN Result(existingConfig, <<>>, <<>>, <<>>, 0, FALSE)
    ELSE IF fg.err
    THEN Result(existingConfig, <<errGates>>, <<>>, <<>>, 0, FALSE)
    ELSE IF ~fg.enabled
    THEN Result(existingConfig, <<>>, <<>>, <<>>, 0, FALSE)
    ELSE IF authn.st = "notfound"
    THEN Result(existingConfig, <<>>, <<evAuthNotFound>>, <<>>, 0, FALSE)
    ELSE IF authn.st = "error"
    THEN Result(existingConfig, <<errAuthLookup>>, <<>>, <<>>, 0, FALSE)
    ELSE IF authn.type # "OIDC"
    THEN authConfigReset(store, syncFails, existingConfig)
    ELSE authConfigOIDC(store, syncFails, existingConfig)

\* --------------------------------- ObserveRoleBindingRestrictionPlugins

disableAdmissionPluginsPath == <<"apiServerArguments", "disable-admission-plugins">>

rbrPlugins ==
    << "authorization.openshift.io/RestrictSubjectBindings",
       "authorization.openshift.io/ValidateRoleBindingRestriction" >>

\* The plugin names of the model in the order of Go's string comparison,
\* which sets.String.List() sorts by.
pluginOrder ==
    << "authorization.openshift.io/RestrictSubjectBindings",
       "authorization.openshift.io/ValidateRoleBindingRestriction",
       "off1", "off2" >>

\* sets.String.List(): the members, sorted.
sortedList(set) == SelectSeq(pluginOrder, LAMBDA x : x \in set)

\* unstructured.NestedStringSlice: (value, found, error).
NestedStringSlice(obj, fields) ==
    IF fields \notin DOMAIN obj
    THEN [val |-> <<>>, found |-> FALSE, err |-> ""]
    ELSE IF obj[fields].kind # "slice"
         THEN [val |-> <<>>, found |-> FALSE,
               err |-> "accessor error: expected []interface{}"]
         ELSE [val |-> obj[fields].elems, found |-> TRUE, err |-> ""]

\* configobserver.Pruned: the config cut down to the given path.
Pruned(obj, path) == [p \in (DOMAIN obj) \cap {path} |-> obj[p]]

evRBRNotFound == "authentications.config.openshift.io/cluster: not found"

\* The body that takes a missing authentication resource for a lookup error.
rbrObserve_NotFoundIsError(authn, existingConfig) ==
    LET disabled == NestedStringSlice(existingConfig, disableAdmissionPluginsPath)
        disabledSet == SeqToSet(disabled.val) \cup SeqToSet(rbrPlugins)
        observedConfig == SetNestedSlice(EmptyTree, sortedList(disabledSet),
                                         disableAdmissionPluginsPath)
    IN  IF authn.st \in {"notfound", "error"}
        THEN Result(existingConfig, <<errAuthLookup>>, <<>>, <<>>, 0, FALSE)
        ELSE IF authn.type = "IntegratedOAuth" \/ authn.type = ""
        THEN Result(existingConfig, <<>>, <<>>, <<>>, 0, FALSE)
        ELSE IF disabled.err # ""
        THEN Result(existingConfig, <<disabled.err>>, <<>>, <<>>, 0, FALSE)
        ELSE Result(observedConfig, <<>>, <<>>, <<>>, 0, FALSE)

\* The body that sets the two plugins in place of the existing entries.
rbrObserve_Overwrite(authn, existingConfig) ==
    LET disabled == NestedStringSlice(existingConfig, disableAdmissionPluginsPath)
        observedConfig == SetNestedSlice(EmptyTree, sortedList(SeqToSet(rbrPlugins)),
                                         disableAdmissionPluginsPath)
    IN  IF authn.st = "notfound"
        THEN Result(EmptyTree, <<>>, <<evRBRNotFound>>, <<>>, 0, FALSE)
        ELSE IF authn.st = "error"
        THEN Result(existingConfig, <<errAuthLookup>>, <<>>, <<>>, 0, FALSE)
        ELSE IF authn.type = "IntegratedOAuth" \/ authn.type = ""
        THEN Result(existingConfig, <<>>, <<>>, <<>>, 0, FALSE)
        ELSE IF disabled.err # ""
        THEN Result(existingConfig, <<disabled.err>>, <<>>, <<>>, 0, FALSE)
        ELSE Result(observedConfig, <<>>, <<>>, <<>>, 0, FALSE)

\* The body that disables the plugins for every authentication type.
rbrObserve_EveryType(authn, existingConfig) ==
    LET disabled == NestedStringSlice(existingConfig, disableAdmissionPluginsPath)
        disabledSet == SeqToSet(disabled.val) \cup SeqToSet(rbrPlugins)
        observedConfig == SetNestedSlice(EmptyTree, sortedList(disabledSet),
                                         disableAdmissionPluginsPath)
    IN  IF authn.st = "notfound"
        THEN Result(EmptyTree, <<>>, <<evRBRNotFound>>, <<>>, 0, FALSE)
        ELSE IF authn.st = "error"
        THEN Result(existingConfig, <<errAuthLookup>>, <<>>, <<>>, 0, FALSE)
        ELSE IF disabled.err # ""
        THEN Result(existingConfig, <<disabled.err>>, <<>>, <<>>, 0, FALSE)
        ELSE Result(observedConfig, <<>>, <<>>, <<>>, 0, FALSE)

\* The body that enables the plugins again under the built-in OAuth types.
rbrObserve_EnablesForOAuth(authn, existingConfig) ==
    LET disabled == NestedStringSlice(existingConfig, disableAdmissionPluginsPath)
        disabledSet == SeqToSet(disabled.val) \cup SeqToSet(rbrPlugins)
        observedConfig == SetNestedSlice(EmptyTree, sortedList(disabledSet),
                                         disableAdmissionPluginsPath)
    IN  IF authn.st = "notfound"
        THEN Result(EmptyTree, <<>>, <<evRBRNotFound>>, <<>>, 0, FALSE)
        ELSE IF authn.st = "error"
        THEN Result(existingConfig, <<errAuthLookup>>, <<>>, <<>>, 0, FALSE)
        ELSE IF authn.type = "IntegratedOAuth" \/ authn.type = ""
        THEN Result(EmptyTree, <<>>, <<>>, <<>>, 0, FALSE)
        ELSE IF disabled.err # ""
        THEN Result(existingConfig, <<disabled.err>>, <<>>, <<>>, 0, FALSE)
        ELSE Result(observedConfig, <<>>, <<>>, <<>>, 0, FALSE)

\* The body of ObserveRoleBindingRestrictionPlugins, before the deferred Pruned.
rbrObserve(authn, existingConfig) ==
    LET disabled == NestedStringSlice(existingConfig, disableAdmissionPluginsPath)
        disabledSet == SeqToSet(disabled.val) \cup SeqToSet(rbrPlugins)
        observedConfig == SetNestedSlice(EmptyTree, sortedList(disabledSet),
                                         disableAdmissionPluginsPath)
    IN  IF authn.st = "notfound"
        THEN Result(EmptyTree, <<>>, <<evRBRNotFound>>, <<>>, 0, FALSE)
        ELSE IF authn.st = "error"
        THEN Result(existingConfig, <<errAuthLookup>>, <<>>, <<>>, 0, FALSE)
        ELSE IF authn.type = "IntegratedOAuth" \/ authn.type = ""
        THEN Result(existingConfig, <<>>, <<>>, <<>>, 0, FALSE)
        ELSE IF disabled.err # ""
        THEN Result(existingConfig, <<disabled.err>>, <<>>, <<>>, 0, FALSE)
        ELSE Result(observedConfig, <<>>, <<>>, <<>>, 0, FALSE)

ObserveRoleBindingRestrictionPlugins(authn, existingConfig) ==
    LET r == rbrObserve(authn, existingConfig)
    IN  [r EXCEPT !.tree = Pruned(r.tree, disableAdmissionPluginsPath)]

\* ------------------------------------------------------ the values in play

Gates(observed, err, enabled) ==
    [observed |-> observed, err |-> err, enabled |-> enabled]

GatesUnobserved == Gates(FALSE, FALSE, FALSE)
GatesError == Gates(TRUE, TRUE, FALSE)
GatesDisabled == Gates(TRUE, FALSE, FALSE)
GatesEnabled == Gates(TRUE, FALSE, TRUE)
GateStates == {GatesUnobserved, GatesError, GatesDisabled, GatesEnabled}

Client(name, ns, id) == [name |-> name, ns |-> ns, id |-> id]
ConsoleClient == Client("console", "openshift-console", "console-oidc-client")
KASClient(id) == Client(componentName, TargetNamespace, id)

ClientLists ==
    { <<ConsoleClient>>,
      <<ConsoleClient, KASClient("")>>,
      <<ConsoleClient, KASClient("test-oidc-client")>>,
      <<ConsoleClient, KASClient("new-test-oidc-client")>> }

Prefix(str) == [nil |-> FALSE, str |-> str]
NilPrefix == [nil |-> TRUE, str |-> ""]

RequiredClaim(claim, value) ==
    [type |-> "RequiredClaim", nil |-> FALSE, claim |-> claim, value |-> value]

RuleKinds ==
    { RequiredClaim("username", "test"),
      RequiredClaim("email", "test"),
      [type |-> "invalid", nil |-> FALSE, claim |-> "username", value |-> "test"],
      [type |-> "RequiredClaim", nil |-> TRUE, claim |-> "", value |-> ""] }

\* A rule list after one change: all rules dropped, the last rule dropped, the
\* rules reversed, one rule replaced, or one rule added (up to MaxRules).
RuleListEdits(rules) ==
    {<<>>}
    \cup {SubSeq(rules, 1, Len(rules) - 1) : i \in 1..Len(rules)}
    \cup {[i \in 1..Len(rules) |-> rules[Len(rules) + 1 - i]]}
    \cup {[rules EXCEPT ![i] = k] : i \in 1..Len(rules), k \in RuleKinds}
    \cup (IF Len(rules) < MaxRules THEN {Append(rules, k) : k \in RuleKinds} ELSE {})

URLs ==
    { "https://idp.example.com", "https://new-idp.example.com",
      "http://idp.example.com", "://idp.example.com" }

CANames == {"", "oidc-ca-bundle", "new-oidc-ca-bundle"}

\* The provider of the tests' baseAuthResource.
BaseProvider ==
    [url |-> "https://idp.example.com",
     caName |-> "oidc-ca-bundle",
     clients |-> <<ConsoleClient, KASClient("test-oidc-client")>>,
     usernameClaim |-> "username",
     prefixPolicy |-> "Prefix",
     prefix |-> Prefix("oidc-user:"),
     groupsClaim |-> "groups",
     groupsPrefix |-> "oidc-group:",
     rules |-> <<RequiredClaim("username", "test"), RequiredClaim("email", "test")>>]

\* Issuer, client id and username claim only.
MinimalProvider ==
    [url |-> "https://idp.example.com",
     caName |-> "",
     clients |-> <<KASClient("test-oidc-client")>>,
     usernameClaim |-> "username",
     prefixPolicy |-> "",
     prefix |-> NilPrefix,
     groupsClaim |-> "",
     groupsPrefix |-> "",
     rules |-> <<>>]

\* Every field check fails.
InvalidProvider ==
    [url |-> "http://idp.example.com",
     caName |-> "oidc-ca-bundle",
     clients |-> <<KASClient("")>>,
     usernameClaim |-> "username",
     prefixPolicy |-> "Prefix",
     prefix |-> NilPrefix,
     groupsClaim |-> "groups",
     groupsPrefix |-> "oidc-group:",
     rules |-> <<[type |-> "invalid", nil |-> TRUE, claim |-> "", value |-> ""]>>]

Auth(type, providers) == [st |-> "ok", type |-> type, providers |-> providers]
AuthNotFound == [st |-> "notfound", type |-> "", providers |-> <<>>]
AuthError == [st |-> "error", type |-> "", providers |-> <<>>]

AuthTypes == {"IntegratedOAuth", "None", "", "OIDC", "Custom"}

\* The provider with one field changed.
ProviderEdits(p) ==
    {[p EXCEPT !.url = u] : u \in URLs}
    \cup {[p EXCEPT !.caName = n] : n \in CANames}
    \cup {[p EXCEPT !.clients = c] : c \in ClientLists}
    \cup {[p EXCEPT !.usernameClaim = c] : c \in {"", "username", "email"}}
    \cup {[p EXCEPT !.groupsClaim = c] : c \in {"", "groups"}}
    \cup {[p EXCEPT !.groupsPrefix = c] : c \in {"", "oidc-group:"}}
    \cup {[p EXCEPT !.prefixPolicy = "", !.prefix = NilPrefix],
          [p EXCEPT !.prefixPolicy = "NoPrefix", !.prefix = NilPrefix],
          [p EXCEPT !.prefixPolicy = "Prefix", !.prefix = NilPrefix],
          [p EXCEPT !.prefixPolicy = "Prefix", !.prefix = Prefix("oidc-user:")],
          [p EXCEPT !.prefixPolicy = "Prefix", !.prefix = Prefix("new-oidc-user:")],
          [p EXCEPT !.prefixPolicy = "Prefix", !.prefix = Prefix("")]}
    \cup {[p EXCEPT !.rules = r] : r \in RuleListEdits(p.rules)}

\* The authentication resource after one change to it.
AuthEdits(a) ==
    {AuthNotFound, AuthError}
    \cup (IF a.st # "ok"
          THEN {Auth(t, IF t = "OIDC" THEN <<BaseProvider>> ELSE <<>>) : t \in AuthTypes}
          ELSE {Auth(t, a.providers) : t \in AuthTypes \ {"OIDC"}}
               \cup {Auth("OIDC", IF a.providers = <<>> THEN <<BaseProvider>>
                                  ELSE a.providers)}
               \cup (IF a.type = "OIDC" /\ Len(a.providers) = 1
                     THEN {Auth("OIDC", <<>>),
                           Auth("OIDC", a.providers \o a.providers)}
                          \cup {Auth("OIDC", <<p>>) : p \in ProviderEdits(a.providers[1])}
                     ELSE {}))

\* Configmap locations and contents.
TargetCALoc == Loc(TargetNamespace, TargetOIDCCAConfigMapName)
SourceCALocs == {Loc(caBundleSourceNamespace, n) : n \in CANames \ {""}}
TargetAuthConfigLoc == Loc(TargetNamespace, AuthConfigCMName)
SourceAuthConfigLoc == Loc(SourceAuthConfigCMNamespace, AuthConfigCMName)
Locations ==
    {TargetCALoc, TargetAuthConfigLoc, SourceAuthConfigLoc} \cup SourceCALocs

CABundle(content) == CM([k \in {caBundleKey} |-> content])
AuthConfigCM(content) == CM([k \in {authConfigKeyName} |-> content])

\* The contents a configmap at a location takes in this model.
CMValues(loc, v) ==
    IF v = "args"
    THEN IF loc = TargetCALoc
         THEN {CMNotFound, CMError, CM(NoData), CABundle("some-cert"),
               CABundle("some-new-cert")}
         ELSE IF loc \in SourceCALocs
         THEN {CMNotFound, CMError, CM(NoData), CABundle("some-cert"),
               CABundle("some-new-cert")}
         ELSE {CMNotFound}
    ELSE IF loc = TargetAuthConfigLoc
         THEN {CMNotFound, CMError, AuthConfigCM("config-1"), AuthConfigCM("config-2")}
         ELSE IF loc = SourceAuthConfigLoc
         THEN {CMNotFound, CMError, CM(NoData), AuthConfigCM(""),
               AuthConfigCM("config-1"), AuthConfigCM("config-2")}
         ELSE {CMNotFound}

NoConfigMaps == [l \in Locations |-> CMNotFound]

\* Target and sources hold the same content.
SyncedConfigMaps(v) ==
    IF v = "args"
    THEN [l \in Locations |->
            IF l = TargetCALoc \/ l \in SourceCALocs
            THEN CABundle("some-cert") ELSE CMNotFound]
    ELSE [l \in Locations |->
            IF l \in {TargetAuthConfigLoc, SourceAuthConfigLoc}
            THEN AuthConfigCM("config-1") ELSE CMNotFound]

\* The tests' baseConfig: what BaseProvider observes to.
BaseConfig ==
    observedConfigOf(oidcConfigValues(BaseProvider, [nil |-> FALSE, id |-> "test-oidc-client"]))

TreeWith(tree, fields, value) ==
    [p \in (DOMAIN tree) \cup {fields} |-> IF p = fields THEN value ELSE tree[p]]

\* Existing configs handed in from outside: nothing, the base config, the
\* minimal provider's config with an empty oidc-required-claim slice, the base
\* config with keys of other observers, configs with a value that is no slice
\* at an owned path, and the config of the structured variant.
ExistingSamples ==
    { EmptyTree,
      BaseConfig,
      TreeWith(observedConfigOf(oidcConfigValues(
                   MinimalProvider, [nil |-> FALSE, id |-> "test-oidc-client"])),
               ArgPath(oidcRequiredClaimPath), Slice(<<>>)),
      TreeWith(TreeWith(BaseConfig, <<"key">>, Scalar("value")),
               disableAdmissionPluginsPath, Slice(<<"off1", "off2">>)),
      TreeWith(BaseConfig, ArgPath(oidcIssuerURLPath), Scalar("https://idp.example.com")),
      TreeWith(BaseConfig, ArgPath(oidcCAFilePath), Scalar(staticCABundleFilePath)),
      TreeWith(TreeWith(EmptyTree, <<"key">>, Scalar("value")),
               disableAdmissionPluginsPath, Scalar("off1")),
      TreeWith(EmptyTree, ArgPath(argAuthConfig), Slice(<<authConfigFilePath>>)) }

\* --------------------------------------------------------- the state machine

NoOut ==
    [obs |-> "none", repeat |-> FALSE, syncFails |-> FALSE, tree |-> EmptyTree,
     errs |-> <<>>, events |-> <<>>, syncs |-> <<>>, calls |-> 0, changed |-> FALSE]

Out(obs, repeat, syncFails, r) ==
    [obs |-> obs, repeat |-> repeat, syncFails |-> syncFails, tree |-> r.tree,
     errs |-> r.errs, events |-> r.events, syncs |-> r.syncs, calls |-> r.calls,
     changed |-> r.changed]

\* post.mirrored: the resource sync controller applied the pass's request, so
\* cms is no longer what the pass read.  post.clean: the observer whose
\* error-free result the driver made the existing config, with nothing
\* upstream changed since; "none" otherwise.
Post(mirrored, clean) == [mirrored |-> mirrored, clean |-> clean]

NoCall == [made |-> FALSE, sourceName |-> "", key |-> "", res |-> NeedsSync(FALSE, "", FALSE)]

\* The runs start with the gates not yet observed, disabled or enabled, and
\* with the authentication resource, the configmaps and the existing config
\* of one of these situations.
Scenario(v, a, c, e) == [variant |-> v, auth |-> a, cms |-> c, existing |-> e]

Scenarios ==
    { Scenario("args", AuthNotFound, NoConfigMaps, EmptyTree),
      Scenario("args", AuthNotFound, SyncedConfigMaps("args"), BaseConfig),
      Scenario("args", Auth("IntegratedOAuth", <<>>), NoConfigMaps, EmptyTree),
      Scenario("args", Auth("IntegratedOAuth", <<>>), SyncedConfigMaps("args"), BaseConfig),
      Scenario("args", Auth("OIDC", <<BaseProvider>>), SyncedConfigMaps("args"), BaseConfig),
      Scenario("args", Auth("OIDC", <<BaseProvider>>), NoConfigMaps, EmptyTree),
      Scenario("args", Auth("OIDC", <<MinimalProvider>>), NoConfigMaps, EmptyTree),
      Scenario("args", Auth("OIDC", <<InvalidProvider>>), SyncedConfigMaps("args"), BaseConfig),
      Scenario("authConfig", AuthNotFound, NoConfigMaps, EmptyTree),
      Scenario("authConfig", Auth("IntegratedOAuth", <<>>), SyncedConfigMaps("authConfig"),
               TreeWith(EmptyTree, ArgPath(argAuthConfig), Slice(<<authConfigFilePath>>))),
      Scenario("authConfig", Auth("OIDC", <<BaseProvider>>), SyncedConfigMaps("authConfig"),
               TreeWith(EmptyTree, ArgPath(argAuthConfig), Slice(<<authConfigFilePath>>))),
      Scenario("authConfig", Auth("OIDC", <<BaseProvider>>), NoConfigMaps, EmptyTree) }

Init ==
    \E s \in Scenarios :
        /\ variant = s.variant
        /\ gates \in {GatesUnobserved, GatesDisabled, GatesEnabled}
        /\ auth = s.auth
        /\ cms = s.cms
        /\ existing = s.existing
        /\ out = NoOut
        /\ post = Post(FALSE, "none")
        /\ edits = 0
        /\ call = NoCall

\* --- changes of a pass's inputs, between passes

Edited ==
    /\ out.obs = "none"
    /\ edits < MaxEdits
    /\ edits' = edits + 1
    /\ post' = Post(FALSE, "none")
    /\ UNCHANGED <<variant, out, call>>

\* The feature gate accessor changes its answer.
SetGates ==
    /\ Edited
    /\ \E g \in GateStates \ {gates} : gates' = g
    /\ UNCHANGED <<auth, cms, existing>>

\* authentications.config.openshift.io/cluster is created, deleted or
\* updated, or its lister starts to fail.
SetAuth ==
    /\ Edited
    /\ \E a \in AuthEdits(auth) \ {auth} : auth' = a
    /\ UNCHANGED <<gates, cms, existing>>

\* A configmap is created, deleted or updated from outside.
SetConfigMap ==
    /\ Edited
    /\ \E l \in Locations : \E c \in CMValues(l, variant) \ {cms[l]} :
            cms' = [cms EXCEPT ![l] = c]
    /\ UNCHANGED <<gates, auth, existing>>

\* The driver hands in an existing config that no pass of these observers
\* produced (the operator's spec.observedConfig is free-form).
SetExisting ==
    /\ Edited
    /\ \E t \in ExistingSamples \ {existing} : existing' = t
    /\ UNCHANGED <<gates, auth, cms>>

\* --- passes

Pass(obs, syncFails, r) ==
    /\ out' = Out(obs, post.clean = obs /\ ~post.mirrored, syncFails, r)
    /\ post' = Post(FALSE, "none")
    /\ UNCHANGED <<variant, gates, auth, cms, existing, edits, call>>

PassOIDC ==
    /\ variant = "args"
    /\ \E syncFails \in BOOLEAN :
        Pass("oidc", syncFails,
             ObserveExternalOIDC(gates, auth, cms, syncFails, existing))

PassAuthConfig ==
    /\ variant = "authConfig"
    /\ \E syncFails \in BOOLEAN :
        Pass("authConfig", syncFails,
             ObserveExternalOIDCAuthConfig(gates, auth, cms, syncFails, existing))

PassRBR ==
    /\ variant \in {"args", "authConfig"}
    /\ Pass("rbr", FALSE, ObserveRoleBindingRestrictionPlugins(auth, existing))

\* --- what follows a pass

\* The resource sync controller applies the request the pass made: the
\* target becomes a copy of the source, or is deleted for an empty or
\* missing source.
Mirrored(store, req) ==
    [store EXCEPT ![req.dst] =
        IF req.src = emptyResourceLocation THEN CMNotFound
        ELSE IF GetConfigMap(store, req.src[1], req.src[2]).st = "ok"
        THEN GetConfigMap(store, req.src[1], req.src[2])
        ELSE CMNotFound]

ApplyMirror ==
    /\ out.syncs # <<>>
    /\ ~post.mirrored
    /\ cms' = Mirrored(cms, out.syncs[Len(out.syncs)])
    /\ post' = Post(TRUE, "none")
    /\ UNCHANGED <<variant, gates, auth, existing, out, edits, call>>

\* The driver makes the returned config the existing config of the next pass.
Commit ==
    /\ out.obs # "none"
    /\ existing' = out.tree
    /\ post' = Post(FALSE, IF out.errs = <<>> /\ ~post.mirrored THEN out.obs ELSE "none")
    /\ out' = NoOut
    /\ UNCHANGED <<variant, gates, auth, cms, edits, call>>

Next ==
    \/ SetGates
    \/ SetAuth
    \/ SetConfigMap
    \/ SetExisting
    \/ PassOIDC
    \/ PassAuthConfig
    \/ PassRBR
    \/ ApplyMirror
    \/ Commit

Spec == Init /\ [][Next]_vars

\* ------------------------------------------- cmNeedsSync called on its own

\* Two configmaps with any content over two keys, as in TestCMNeedsSync.
TestKeys == {"keyA", "keyB"}
TestValues == {"aaa", "bbb"}
TestData == UNION {[K -> TestValues] : K \in SUBSET TestKeys}
TestCMs == {CMNotFound, CMError} \cup {CM(d) : d \in TestData}
TestTarget == Loc("ns1", "cm1")
TestSource == Loc("ns2", "cm2")

InitCM ==
    /\ variant = "args"
    /\ gates = GatesUnobserved
    /\ auth = AuthNotFound
    /\ cms \in [{TestTarget, TestSource} -> TestCMs]
    /\ existing = EmptyTree
    /\ out = NoOut
    /\ post = Post(FALSE, "none")
    /\ edits = 0
    /\ call = NoCall

CallCMNeedsSync ==
    /\ \E sourceName \in {"", "cm2"}, key \in {""} \cup TestKeys :
        call' = [made |-> TRUE, sourceName |-> sourceName, key |-> key,
                 res |-> cmNeedsSync(cms, "cm1", "ns1", sourceName, "ns2", key)]
    /\ UNCHANGED <<variant, gates, auth, cms, existing, out, post, edits>>

NextCM == CallCMNeedsSync

SpecCM == InitCM /\ [][NextCM]_vars

\* ================================================================ properties

\* While out holds a pass's result, existing is the config that pass was
\* given, and gates and auth are what it read; cms is what it read until the
\* resource sync controller applies the pass's request.
PassDone(obs) == out.obs = obs
ExternalOIDCPass == out.obs \in {"oidc", "authConfig"}
GateOpen == gates.observed /\ ~gates.err /\ gates.enabled
Events == SeqToSet(out.events)
Errs == SeqToSet(out.errs)

\* The authentication resource has type OIDC and exactly one provider.
OneProvider == auth.st = "ok" /\ auth.type = "OIDC" /\ Len(auth.providers) = 1
TheClient == getOIDCClientForComponent(auth, componentName, TargetNamespace)

\* The provider passes every field check of observeExternalOIDC.
ValidProvider ==
    /\ OneProvider
    /\ ~TheClient.nil
    /\ oidcFieldErrs(auth.providers[1], TheClient) = <<>>

\* Every oidc-* path the existing config holds is a slice.
ReadableExisting ==
    \A i \in 1..Len(oidcPaths) :
        NestedSlice(existing, ArgPath(oidcPaths[i])).err = ""

DeleteCA == SyncRequest(TargetCALoc, emptyResourceLocation)

\* ---- C1
\* C1: a pass of either ExternalOIDC observer that finds the initial feature
\* gates not yet observed, or finds them observed with ExternalOIDC disabled,
\* returns the existing config it was given with no errors, records no event
\* and makes no SyncConfigMap call, whatever the authentication resource and
\* the configmaps are.
C1_GatedPassIsNoOp ==
    (ExternalOIDCPass /\ (~gates.observed \/ (gates.observed /\ ~gates.err /\ ~gates.enabled)))
        => /\ out.tree = existing
           /\ out.errs = <<>>
           /\ out.events = <<>>
           /\ out.syncs = <<>>
           /\ out.calls = 0

\* A gated pass over an authentication type that an open gate would answer
\* by clearing the existing OIDC arguments and deleting the CA configmap.
C1_Witness ==
    /\ PassDone("oidc")
    /\ ~gates.observed
    /\ auth = Auth("IntegratedOAuth", <<>>)
    /\ existing = BaseConfig
    /\ out.tree = BaseConfig

\* ---- C2
\* C2: when a pass returned T without errors and the next pass runs
\* over the same gates, authentication resource and configmaps with T as its
\* existing config, that pass returns T, does not flag a configuration change
\* and records no event.
C2_RepeatIsSilent ==
    (PassDone("oidc") /\ out.repeat)
        => /\ out.tree = existing
           /\ ~out.changed
           /\ out.events = <<>>

\* ---- C3
\* C3: a pass of the ExternalOIDC observer or of the RoleBindingRestriction
\* observer that returns errors returns the existing config it was given.
C3_NoFragmentOnError ==
    (out.obs \in {"oidc", "authConfig", "rbr"} /\ out.errs # <<>>)
        => out.tree = existing

\* ---- C4
\* C4: an ExternalOIDC pass that returns errors had no SyncConfigMap request
\* taken and recorded no event.
C4_ErrorsPreventSideEffects ==
    (ExternalOIDCPass /\ out.errs # <<>>)
        => /\ out.syncs = <<>>
           /\ out.events = <<>>

\* ---- C5
\* C5 as stated: the authentication resource is not found while the existing
\* config has OIDC arguments: the pass returns an empty config, records the
\* removal event and requests the deletion of the CA configmap.
C5_NotFoundClears ==
    (PassDone("oidc") /\ GateOpen /\ auth.st = "notfound"
        /\ oidcConfigExists(existing).exists)
        => /\ out.tree = EmptyTree
           /\ evRemoved \in Events
           /\ out.syncs = <<DeleteCA>>

\* C5, amended: in that situation the pass returns the existing config as it
\* is, with no errors, no event and no SyncConfigMap call.
C5_NotFoundKeeps ==
    (PassDone("oidc") /\ GateOpen /\ auth.st = "notfound"
        /\ oidcConfigExists(existing).exists)
        => /\ out.tree = existing
           /\ out.errs = <<>>
           /\ out.events = <<>>
           /\ out.syncs = <<>>
           /\ out.calls = 0

C5_Witness ==
    /\ PassDone("oidc")
    /\ GateOpen
    /\ auth.st = "notfound"
    /\ existing = BaseConfig
    /\ cms[TargetCALoc].st = "ok"
    /\ out.tree = BaseConfig

\* ---- C6
\* The target CA configmap exists and the valid provider names no CA.
CARemoved ==
    /\ PassDone("oidc")
    /\ ~post.mirrored
    /\ GateOpen
    /\ ValidProvider
    /\ auth.providers[1].caName = ""
    /\ cms[TargetCALoc].st = "ok"

C7_EmptyClientID ==
    (PassDone("oidc") /\ GateOpen /\ OneProvider /\ ~TheClient.nil /\ TheClient.id = "")
        => /\ out.tree = existing
           /\ errClientID \in Errs
           /\ out.syncs = <<>>
           /\ out.calls = 0
           /\ out.events = <<>>

\* The client id is the only thing wrong, and the target configmap is
\* missing: without the error the pass would sync and publish.
C7_Witness ==
    /\ PassDone("oidc")
    /\ GateOpen
    /\ OneProvider
    /\ auth.providers[1] = [BaseProvider EXCEPT !.clients = <<ConsoleClient, KASClient("")>>]
    /\ cms[TargetCALoc].st = "notfound"
    /\ existing = EmptyTree
    /\ out.errs = <<errClientID>>
\* ---- C8
\* What cmNeedsSync compares of a configmap: the value at ca-bundle.crt for
\* the CA bundle, the whole data for the auth-config configmap.
ComparedContent(cm) ==
    IF variant = "args"
    THEN IF caBundleKey \in DOMAIN cm.data THEN <<cm.data[caBundleKey]>> ELSE <<>>
    ELSE cm.data

\* A request that changes its target: a deletion of a configmap that exists,
\* or a copy over a target that is missing or differs from the source. A
\* configmap whose lookup failed counts as differing.
WouldChange(req) ==
    LET target == GetConfigMap(cms, req.dst[1], req.dst[2])
        source == GetConfigMap(cms, req.src[1], req.src[2])
    IN  IF req.src = emptyResourceLocation
        THEN target.st # "notfound"
        ELSE \/ target.st # "ok"
             \/ source.st # "ok"
             \/ ComparedContent(target) # ComparedContent(source)

\* C8: every SyncConfigMap request of a pass of either ExternalOIDC observer
\* changes its target: a copy is requested only when the target configmap is
\* missing or its compared content differs from the source's, a deletion only
\* when the target configmap exists.
C8_MirrorOnlyOnChange ==
    (ExternalOIDCPass /\ ~post.mirrored)
        => \A i \in 1..Len(out.syncs) : WouldChange(out.syncs[i])

\* ---- C9
\* cmNeedsSync was called with a source name and read both configmaps.
BothRead ==
    /\ call.made
    /\ call.sourceName # ""
    /\ cms[TestTarget].st = "ok"
    /\ cms[TestSource].st = "ok"
InTarget == call.key \in DOMAIN cms[TestTarget].data
InSource == call.key \in DOMAIN cms[TestSource].data

\* C9 as stated: with both configmaps read, a key held by both gives needsSync
\* exactly when the values differ, a key held by exactly one of them gives
\* needsSync, and no key gives needsSync exactly when the data differ.
C9_SpecifiedRule ==
    BothRead
        => /\ (call.key = "")
                => call.res.needsSync = (cms[TestTarget].data # cms[TestSource].data)
           /\ (call.key # "" /\ InTarget /\ InSource)
                => call.res.needsSync
                     = (cms[TestTarget].data[call.key] # cms[TestSource].data[call.key])
           /\ (call.key # "" /\ (InTarget # InSource))
                => call.res.needsSync

\* C9, amended: a key held only by the source gives needsSync without an
\* error; a key held only by the target gives an error and no needsSync. The
\* other two cases are as stated, and return no error.
C9_ComparisonRule ==
    BothRead
        => /\ (call.key = "")
                => /\ call.res.needsSync = (cms[TestTarget].data # cms[TestSource].data)
                   /\ call.res.err = ""
           /\ (call.key # "" /\ InTarget /\ InSource)
                => /\ call.res.needsSync
                        = (cms[TestTarget].data[call.key] # cms[TestSource].data[call.key])
                   /\ call.res.err = ""
           /\ (call.key # "" /\ ~InTarget /\ InSource)
                => call.res.needsSync /\ call.res.err = ""
           /\ (call.key # "" /\ InTarget /\ ~InSource)
                => ~call.res.needsSync /\ call.res.err # ""

\* The key is held by the target only.
C9_Witness ==
    /\ BothRead
    /\ call.key = "keyA"
    /\ InTarget
    /\ ~InSource
    /\ ~call.res.needsSync
    /\ call.res.err # ""

\* ---- C10
\* C10: when both configmaps are read and the source does not hold the
\* comparison key, whether the target holds it or not, cmNeedsSync returns an
\* error and needsSync = false.
C10_KeyCompleteness ==
    (BothRead /\ call.key # "" /\ ~InSource)
        => call.res.err # "" /\ ~call.res.needsSync

\* Neither configmap holds the key, while they differ at another key.
C10_Witness ==
    /\ BothRead
    /\ call.key = "keyA"
    /\ ~InTarget
    /\ ~InSource
    /\ cms[TestTarget].data # cms[TestSource].data
    /\ call.res.err # ""
    /\ ~call.res.needsSync
\* ---- C11
\* C11: cmNeedsSync returns needsSync = true and no error when the target
\* configmap is not found, whatever the named source is, and when the target
\* is there and the source name is empty; in neither case is the source
\* configmap looked up.
C11_MissingTargetOrEmptySource ==
    (call.made /\ (\/ cms[TestTarget].st = "notfound"
                   \/ cms[TestTarget].st = "ok" /\ call.sourceName = ""))
        => /\ call.res.needsSync
           /\ call.res.err = ""
           /\ ~call.res.sourceRead

\* Neither the target nor the named source is there.
C11_Witness ==
    /\ call.made
    /\ call.sourceName = "cm2"
    /\ cms[TestTarget].st = "notfound"
    /\ cms[TestSource].st = "notfound"
    /\ call.res.needsSync
    /\ call.res.err = ""
\* ---- C12
\* The CA source location a provider names, empty when it names none.
CASource(provider) ==
    IF provider.caName = "" THEN emptyResourceLocation
    ELSE Loc(caBundleSourceNamespace, provider.caName)

\* An OIDC pass over a valid provider in which a lookup of cmNeedsSync fails:
\* the target lookup fails, or the target is there and the named source is
\* not found or its lookup fails.
CALookupFails ==
    /\ PassDone("oidc")
    /\ ~post.mirrored
    /\ GateOpen
    /\ ValidProvider
    /\ \/ cms[TargetCALoc].st = "error"
       \/ /\ cms[TargetCALoc].st = "ok"
          /\ auth.providers[1].caName # ""
          /\ cms[CASource(auth.providers[1])].st \in {"notfound", "error"}

\* C12: a failed needs-sync decision is fatal: when the target is there and
\* the named source configmap is not found, or a configmap lookup fails, the
\* pass returns the error and makes no SyncConfigMap request.
C12_FailedDecisionIsFatal ==
    CALookupFails
        => /\ out.errs # <<>>
           /\ out.calls = 0
           /\ out.syncs = <<>>

\* C12, amended: the error of cmNeedsSync is not returned; the pass makes one
\* SyncConfigMap call for the target with the named source all the same, and
\* when the syncer takes it the pass records the CA bundle event and returns
\* no error over a readable existing config.
C12_FailedDecisionSyncsAnyway ==
    CALookupFails
        => /\ out.calls = 1
           /\ ~out.syncFails
                => /\ out.syncs = <<SyncRequest(TargetCALoc, CASource(auth.providers[1]))>>
                   /\ evCASynced \in Events
                   /\ ReadableExisting => out.errs = <<>>
           /\ out.syncFails => out.errs = <<errSync>> /\ out.syncs = <<>>

\* The named source configmap is gone while the target still holds its copy.
C12_Witness ==
    /\ CALookupFails
    /\ auth.providers[1] = BaseProvider
    /\ existing = BaseConfig
    /\ cms[TargetCALoc] = CABundle("some-cert")
    /\ cms[CASource(BaseProvider)].st = "notfound"
    /\ out.syncs = <<SyncRequest(TargetCALoc, CASource(BaseProvider))>>
    /\ out.errs = <<>>
    /\ out.tree = BaseConfig
\* ---- C13
\* An OIDC pass that went through to the end and returned no error.
SuccessfulOIDCPass ==
    /\ PassDone("oidc")
    /\ GateOpen
    /\ auth.st = "ok"
    /\ auth.type = "OIDC"
    /\ out.errs = <<>>

\* C13: a successful OIDC pass returns no oidc-username-prefix under the
\* policy NoOpinion (""), ["-"] under NoPrefix and [the prefix string] under
\* Prefix; under Prefix with a nil prefix the pass returns the existing config
\* and the error "nil username prefix while policy expects one".
C13_UsernamePrefix ==
    LET f == ArgPath(oidcUsernamePrefixPath)
    IN  /\ SuccessfulOIDCPass
            => LET provider == auth.providers[1]
               IN  /\ provider.prefixPolicy = "" => f \notin DOMAIN out.tree
                   /\ provider.prefixPolicy = "NoPrefix"
                        => f \in DOMAIN out.tree /\ out.tree[f] = Slice(<<"-">>)
                   /\ provider.prefixPolicy = "Prefix"
                        => /\ ~provider.prefix.nil
                           /\ f \in DOMAIN out.tree
                           /\ out.tree[f] = Slice(<<provider.prefix.str>>)
        /\ (PassDone("oidc") /\ GateOpen /\ OneProvider /\ ~TheClient.nil
                /\ auth.providers[1].prefixPolicy = "Prefix"
                /\ auth.providers[1].prefix.nil)
            => errNilPrefix \in Errs /\ out.tree = existing

\* The policy went from Prefix to NoPrefix: "oidc-user:" gives way to "-".
C13_Witness ==
    /\ SuccessfulOIDCPass
    /\ auth.providers[1].prefixPolicy = "NoPrefix"
    /\ existing = BaseConfig
    /\ existing[ArgPath(oidcUsernamePrefixPath)] = Slice(<<"oidc-user:">>)
    /\ out.tree[ArgPath(oidcUsernamePrefixPath)] = Slice(<<"-">>)
    /\ out.changed
\* ---- C14
\* The oidc-* arguments whose field the provider fills.
PresentUpstream(provider) ==
    {oidcIssuerURLPath, oidcClientIDPath}
    \cup (IF provider.usernameClaim # "" THEN {oidcUsernameClaimPath} ELSE {})
    \cup (IF provider.prefixPolicy \in {"NoPrefix", "Prefix"}
          THEN {oidcUsernamePrefixPath} ELSE {})
    \cup (IF provider.groupsClaim # "" THEN {oidcGroupsClaimPath} ELSE {})
    \cup (IF provider.groupsPrefix # "" THEN {oidcGroupsPrefixPath} ELSE {})
    \cup (IF Len(provider.rules) > 0 THEN {oidcRequiredClaimPath} ELSE {})
    \cup (IF provider.caName # "" THEN {oidcCAFilePath} ELSE {})

\* C14: the config a successful OIDC pass returns holds an oidc-* path
\* exactly when the provider fills the field behind it, whatever the existing
\* config holds there: a path the existing config has and the provider does
\* not fill is not returned, and nothing else of the existing config is.
C14_AbsentFieldsOmitted ==
    SuccessfulOIDCPass
        => DOMAIN out.tree = {ArgPath(p) : p \in PresentUpstream(auth.providers[1])}

\* The username claim was removed upstream while the existing config has it.
C14_Witness ==
    /\ SuccessfulOIDCPass
    /\ auth.providers[1].usernameClaim = ""
    /\ existing = BaseConfig
    /\ ArgPath(oidcUsernameClaimPath) \in DOMAIN existing
    /\ ArgPath(oidcUsernameClaimPath) \notin DOMAIN out.tree
    /\ ArgPath(oidcGroupsClaimPath) \in DOMAIN out.tree
\* ---- C15
\* An OIDC pass that reached the field checks.
FieldChecked ==
    /\ PassDone("oidc")
    /\ GateOpen
    /\ OneProvider
    /\ ~TheClient.nil

BadURL(provider) ==
    urlParse(provider.url).err # "" \/ urlParse(provider.url).scheme # "https"
WrongTypeRules(provider) ==
    {i \in 1..Len(provider.rules) : provider.rules[i].type # "RequiredClaim"}
NilClaimRules(provider) ==
    {i \in 1..Len(provider.rules) : provider.rules[i].nil}

\* The number of field checks the provider fails.
FailedChecks(provider, clientConfig) ==
    (IF BadURL(provider) THEN 1 ELSE 0)
    + (IF clientConfig.id = "" THEN 1 ELSE 0)
    + (IF provider.prefixPolicy = "Prefix" /\ provider.prefix.nil THEN 1 ELSE 0)
    + Cardinality(WrongTypeRules(provider))
    + Cardinality(NilClaimRules(provider))

\* C15: a pass over a provider that fails field checks returns the existing
\* config and one error for every failed check: the URL error, the client id
\* error, the nil prefix error and, for every rule, the wrong type error and
\* the empty rule error; it makes no SyncConfigMap call and records no event.
C15_ErrorsAccumulate ==
    (FieldChecked /\ FailedChecks(auth.providers[1], TheClient) > 0)
        => LET provider == auth.providers[1]
           IN  /\ out.tree = existing
               /\ Len(out.errs) = FailedChecks(provider, TheClient)
               /\ (urlParse(provider.url).err = "" /\ BadURL(provider)) => errHTTPS \in Errs
               /\ urlParse(provider.url).err # "" => urlParse(provider.url).err \in Errs
               /\ TheClient.id = "" => errClientID \in Errs
               /\ (provider.prefixPolicy = "Prefix" /\ provider.prefix.nil)
                    => errNilPrefix \in Errs
               /\ WrongTypeRules(provider) # {} => errRuleType \in Errs
               /\ NilClaimRules(provider) # {} => errRuleEmpty \in Errs
               /\ out.calls = 0
               /\ out.syncs = <<>>
               /\ out.events = <<>>

\* Every field check fails at once, over an existing config that differs
\* from what the provider would observe to.
C15_Witness ==
    /\ FieldChecked
    /\ auth.providers[1] = InvalidProvider
    /\ existing = BaseConfig
    /\ out.tree = BaseConfig
    /\ out.errs = <<errHTTPS, errClientID, errNilPrefix, errRuleType, errRuleEmpty>>
\* ---- C16
\* An ExternalOIDC pass over an authentication resource of a type other than
\* OIDC that the switch knows, with a syncer that takes the request.
TypeReset ==
    /\ PassDone("oidc")
    /\ GateOpen
    /\ auth.st = "ok"
    /\ auth.type \in {"IntegratedOAuth", "None", ""}
    /\ ~out.syncFails

\* The existing config holds a value at one of the eight oidc-* paths.
HasOIDCValue ==
    \E i \in 1..Len(oidcPaths) : ArgPath(oidcPaths[i]) \in DOMAIN existing

MirrorFailed ==
    /\ ExternalOIDCPass
    /\ out.syncFails
    /\ out.calls > 0

\* C17: when the resource syncer returns an error for a SyncConfigMap call,
\* in the type switch or in the CA sync of an OIDC pass, the pass returns the
\* existing config and errors that include the syncer's, makes no second call
\* and records no event.
C17_MirrorFailurePropagates ==
    MirrorFailed
        => /\ out.tree = existing
           /\ errSync \in Errs
           /\ out.calls = 1
           /\ out.syncs = <<>>
           /\ out.events = <<>>

\* The deletion for type None is refused over the base config.
C17_Witness ==
    /\ MirrorFailed
    /\ PassDone("oidc")
    /\ auth.st = "ok"
    /\ auth.type = "None"
    /\ existing = BaseConfig
    /\ out.tree = BaseConfig
    /\ out.errs = <<errSync>>
\* ---- C18
\* Type OIDC with a provider count other than one, or with one provider that
\* has no client entry for kube-apiserver in openshift-kube-apiserver.
SchemaViolation ==
    /\ PassDone("oidc")
    /\ GateOpen
    /\ auth.st = "ok"
    /\ auth.type = "OIDC"
    /\ (Len(auth.providers) # 1 \/ TheClient.nil)

\* C18: such a pass returns the existing config and exactly one error, the
\* one of the violated condition and none of the field checks, makes no
\* SyncConfigMap call and records no event.
C18_SchemaViolation ==
    SchemaViolation
        => /\ out.tree = existing
           /\ out.errs = IF Len(auth.providers) # 1 THEN <<errOneProvider>>
                         ELSE <<errNoClient>>
           /\ out.calls = 0
           /\ out.syncs = <<>>
           /\ out.events = <<>>

\* No client entry for the component, on a provider whose URL, prefix and
\* rule would each fail a field check.
C18_Witness ==
    /\ SchemaViolation
    /\ Len(auth.providers) = 1
    /\ auth.providers[1] = [InvalidProvider EXCEPT !.clients = <<ConsoleClient>>]
    /\ FailedChecks(auth.providers[1], TheClient) > 1
    /\ existing = BaseConfig
    /\ out.tree = BaseConfig
    /\ out.errs = <<errNoClient>>
\* ---- C19
\* A RoleBindingRestriction pass over an authentication resource that is
\* there, of the built-in OAuth types or of another type.
RBRPass == PassDone("rbr") /\ auth.st = "ok"
BuiltInOAuth == auth.type \in {"IntegratedOAuth", ""}

\* The entries of disable-admission-plugins in a config; none when the path
\* is not set.
DisabledIn(config) ==
    IF disableAdmissionPluginsPath \in DOMAIN config
    THEN SeqToSet(config[disableAdmissionPluginsPath].elems)
    ELSE {}

\* The existing disable-admission-plugins value, when set, is a slice.
ReadableDisabled ==
    disableAdmissionPluginsPath \in DOMAIN existing
        => existing[disableAdmissionPluginsPath].kind = "slice"

\* C19: for a type other than IntegratedOAuth and empty the pass returns, and
\* returns alone, a disable-admission-plugins slice whose entries are the
\* existing entries together with the two RoleBindingRestriction plugins,
\* each once; it returns an error in place of that only when the existing
\* value is not a slice.
C19_UnionOfDisabledPlugins ==
    (RBRPass /\ ~BuiltInOAuth)
        => /\ (out.errs = <<>>) <=> ReadableDisabled
           /\ out.errs = <<>>
                => /\ DOMAIN out.tree = {disableAdmissionPluginsPath}
                   /\ out.tree[disableAdmissionPluginsPath].kind = "slice"
                   /\ DisabledIn(out.tree) = DisabledIn(existing) \cup SeqToSet(rbrPlugins)
                   /\ Len(out.tree[disableAdmissionPluginsPath].elems)
                        = Cardinality(DisabledIn(out.tree))

\* Two plugins were disabled from outside; the pass returns four.
C19_Witness ==
    /\ RBRPass
    /\ auth.type = "OIDC"
    /\ DisabledIn(existing) = {"off1", "off2"}
    /\ out.errs = <<>>
    /\ DisabledIn(out.tree) = {"off1", "off2"} \cup SeqToSet(rbrPlugins)
    /\ Len(out.tree[disableAdmissionPluginsPath].elems) = 4

\* ---- C20
\* C20: for a type other than IntegratedOAuth and empty both plugin names are
\* in the disable-admission-plugins the pass returns; for IntegratedOAuth and
\* empty the pass returns the existing disable-admission-plugins value as it
\* is, or none when there is none, with no error and no event.
C20_DisabledExactlyForOtherTypes ==
    /\ (RBRPass /\ ~BuiltInOAuth /\ out.errs = <<>>)
        => SeqToSet(rbrPlugins) \subseteq DisabledIn(out.tree)
    /\ (RBRPass /\ BuiltInOAuth)
        => /\ out.errs = <<>>
           /\ out.events = <<>>
           /\ DOMAIN out.tree = DOMAIN existing \cap {disableAdmissionPluginsPath}
           /\ \A p \in DOMAIN out.tree : out.tree[p] = existing[p]

\* IntegratedOAuth over two plugins disabled from outside: nothing is added.
C20_Witness ==
    /\ RBRPass
    /\ auth.type = "IntegratedOAuth"
    /\ DisabledIn(existing) = {"off1", "off2"}
    /\ DisabledIn(out.tree) = {"off1", "off2"}
    /\ out.errs = <<>>
\* ---- C21
\* A pass that looked up the authentication resource and did not find it.
AuthNotFoundPass ==
    /\ out.obs \in {"oidc", "authConfig", "rbr"}
    /\ auth.st = "notfound"
    /\ ExternalOIDCPass => GateOpen

\* C21: every observer answers a missing authentication resource with no
\* error, a not-found event, and either the existing config or an empty one.
C21_NotFoundIsReported ==
    AuthNotFoundPass
        => /\ out.errs = <<>>
           /\ out.events # <<>>
           /\ out.tree \in {existing, EmptyTree}

\* C21, amended: no observer returns an error or makes a SyncConfigMap call.
\* The RoleBindingRestriction observer records the not-found event and
\* returns an empty config; the structured auth-config observer records the
\* event and returns the existing config; the observer of the oidc-*
\* arguments returns the existing config and records no event.
C21_NotFoundFallback ==
    AuthNotFoundPass
        => /\ out.errs = <<>>
           /\ out.syncs = <<>>
           /\ out.calls = 0
           /\ PassDone("rbr")
                => out.events = <<evRBRNotFound>> /\ out.tree = EmptyTree
           /\ PassDone("authConfig")
                => out.events = <<evAuthNotFound>> /\ out.tree = existing
           /\ PassDone("oidc")
                => out.events = <<>> /\ out.tree = existing

\* The RoleBindingRestriction observer clears a config that had entries.
C21_Witness ==
    /\ AuthNotFoundPass
    /\ PassDone("rbr")
    /\ DisabledIn(existing) = {"off1", "off2"}
    /\ out.tree = EmptyTree
    /\ out.events = <<evRBRNotFound>>
    /\ out.errs = <<>>
\* ---- C22
\* The paths an observer owns.
OwnedPaths(obs) ==
    IF obs = "rbr" THEN {disableAdmissionPluginsPath}
    ELSE {ArgPath(oidcPaths[i]) : i \in 1..Len(oidcPaths)} \cup {ArgPath(argAuthConfig)}

\* C22: whatever the existing config carries, the config a pass returns has
\* values at the paths of its observer only: the oidc-* and
\* authentication-config arguments for ExternalOIDC, disable-admission-plugins
\* for the RoleBindingRestriction observer.
C22_OwnedPathsOnly ==
    out.obs \in {"oidc", "authConfig", "rbr"}
        => DOMAIN out.tree \subseteq OwnedPaths(out.obs)
\* ---- C23
\* C23: every SyncConfigMap request of an ExternalOIDC pass has the
\* observer's one target configmap in openshift-kube-apiserver as its
\* destination, and a source whose namespace is empty exactly when its name
\* is empty.
C23_MirrorLink ==
    ExternalOIDCPass
        => \A i \in 1..Len(out.syncs) :
              LET req == out.syncs[i]
              IN  /\ req.dst = IF PassDone("oidc") THEN TargetCALoc
                               ELSE TargetAuthConfigLoc
                  /\ req.dst[1] = "openshift-kube-apiserver"
                  /\ (req.src[1] = "") <=> (req.src[2] = "")

\* The CA sync of a provider without a CA name: the source namespace that
\* syncCABundleIfNeeded starts from is blanked.
C23_Witness ==
    /\ PassDone("oidc")
    /\ GateOpen
    /\ ValidProvider
    /\ auth.providers[1].caName = ""
    /\ out.syncs = <<SyncRequest(TargetCALoc, <<"", "">>)>>
\* ---- C24
CountOf(events, ev) == Cardinality({i \in 1..Len(events) : events[i] = ev})

\* The value the change loop sees at a path of a tree: an absent path and an
\* empty sequence are the same value.
LoopValue(tree, p) ==
    IF p \notin DOMAIN tree \/ tree[p] = Slice(<<>>) THEN Slice(<<>>) ELSE tree[p]

OIDCArgPaths == {ArgPath(oidcPaths[i]) : i \in 1..Len(oidcPaths)}

DiffersLiterally(p) ==
    \/ (p \in DOMAIN existing) # (p \in DOMAIN out.tree)
    \/ p \in DOMAIN existing /\ p \in DOMAIN out.tree /\ existing[p] # out.tree[p]

\* C24 as stated: a path that disappears or appears always counts as
\* different.
C24_ChangeEventOncePerPass ==
    SuccessfulOIDCPass
        => CountOf(out.events, evChanged)
               = IF \E p \in OIDCArgPaths : DiffersLiterally(p) THEN 1 ELSE 0

\* C24: a successful OIDC pass emits 'ExternalOIDC configuration changed'
\* exactly once if the value at one of the eight oidc-* paths differs between
\* the existing config and the returned config, an empty sequence in the
\* existing config counting as an absent path, and not at all otherwise; the
\* pass emits at most this event and the CA sync event.
C24_ChangeEvent ==
    SuccessfulOIDCPass
        => /\ CountOf(out.events, evChanged)
                  = IF \E p \in OIDCArgPaths :
                           LoopValue(existing, p) # LoopValue(out.tree, p)
                    THEN 1 ELSE 0
           /\ out.changed <=> CountOf(out.events, evChanged) = 1
           /\ Len(out.events) <= 2

\* Every path of the returned config is new, and one event reports it.
C24_Witness ==
    /\ SuccessfulOIDCPass
    /\ existing = EmptyTree
    /\ Cardinality({p \in OIDCArgPaths : LoopValue(existing, p) # LoopValue(out.tree, p)}) >= 4
    /\ CountOf(out.events, evChanged) = 1
\* ---- C25
\* The closed loop is at rest: the mirror applied to what the pass read gives
\* the same configmaps, and the returned config is the existing config, so
\* the next pass over the unchanged gates, authentication resource and
\* source configmap has the inputs of this one and, the observers being
\* functions of their inputs, its outputs.
LoopAtRest ==
    /\ ExternalOIDCPass
    /\ ~post.mirrored
    /\ ~out.syncFails
    /\ out.tree = existing
    /\ out.syncs # <<>> => Mirrored(cms, out.syncs[Len(out.syncs)]) = cms

\* C25: once committing the returned config and applying the mirror
\* requests change nothing any more, an ExternalOIDC pass records no event
\* and issues no mirror request; a pass at rest that does repeats them in
\* every later pass, so the passes never fall silent.
C25_Quiescence ==
    LoopAtRest => out.events = <<>> /\ out.syncs = <<>>
\* ---- C26
\* An OIDC pass over a valid provider with a named CA whose source configmap
\* and the target both hold ca-bundle.crt.
NamedCAPass ==
    /\ PassDone("oidc")
    /\ GateOpen
    /\ auth.st = "ok"
    /\ auth.type = "OIDC"
    /\ ValidProvider
    /\ auth.providers[1].caName # ""
    /\ ~post.mirrored
    /\ cms[TargetCALoc].st = "ok"
    /\ caBundleKey \in DOMAIN cms[TargetCALoc].data
    /\ cms[CASource(auth.providers[1])].st = "ok"
    /\ caBundleKey \in DOMAIN cms[CASource(auth.providers[1])].data

CAContentDiffers ==
    cms[TargetCALoc].data[caBundleKey]
        # cms[CASource(auth.providers[1])].data[caBundleKey]

CopyCA == SyncRequest(TargetCALoc, CASource(auth.providers[1]))

\* The config of the pass's provider under another CA name.
UnderOtherCAName ==
    {observedConfigOf(oidcConfigValues([auth.providers[1] EXCEPT !.caName = n], TheClient)) :
        n \in CANames \ {"", auth.providers[1].caName}}

\* C26 as stated: the copy request is recorded and the event emitted exactly
\* when the two ca-bundle.crt values differ.
C26_SyncFollowsContentAlways ==
    NamedCAPass
        => /\ (out.syncs = <<CopyCA>> /\ evCASynced \in Events) <=> CAContentDiffers
           /\ ~CAContentDiffers => out.syncs = <<>> /\ evCASynced \notin Events

\* C26: in such a pass SyncConfigMap is called, for target <-
\* openshift-config/<CA name>, exactly when the two ca-bundle.crt values
\* differ; when the syncer takes the request it is recorded with the event 'CA
\* bundle configmap synced', when it refuses the pass returns the existing
\* config and the error without an event.  With equal content there is no
\* request and no sync event, and over the config of the same provider under
\* another CA name the pass returns that config without any event.
C26_SyncFollowsContent ==
    NamedCAPass
        => /\ out.calls = IF CAContentDiffers THEN 1 ELSE 0
           /\ (CAContentDiffers /\ ~out.syncFails)
                 => out.syncs = <<CopyCA>> /\ evCASynced \in Events
           /\ (CAContentDiffers /\ out.syncFails)
                 => /\ out.syncs = <<>>
                    /\ out.events = <<>>
                    /\ out.tree = existing
                    /\ errSync \in Errs
           /\ ~CAContentDiffers
                 => /\ out.syncs = <<>>
                    /\ evCASynced \notin Events
                    /\ existing \in UnderOtherCAName
                          => out.tree = existing /\ out.events = <<>> /\ out.errs = <<>>

\* The test "update OIDC ca name but same content".
C26_Witness ==
    /\ NamedCAPass
    /\ ~CAContentDiffers
    /\ auth.providers[1] = [BaseProvider EXCEPT !.caName = "new-oidc-ca-bundle"]
    /\ existing = BaseConfig
    /\ out.tree = BaseConfig
    /\ out.calls = 0
    /\ out.events = <<>>
\* ---- C27
\* A pass of the structured variant, gate enabled, over an authentication
\* resource of a type other than OIDC.
AuthConfigResetPass ==
    /\ PassDone("authConfig")
    /\ GateOpen
    /\ auth.st = "ok"
    /\ auth.type # "OIDC"
    /\ ~post.mirrored

DeleteAuthConfig == SyncRequest(TargetAuthConfigLoc, emptyResourceLocation)

\* C27 as stated: the pass returns an empty config and no error whatever
\* happens to the lookup of the target and to the delete request.
C27_ResetAlwaysSucceeds ==
    AuthConfigResetPass
        => /\ out.tree = EmptyTree
           /\ out.errs = <<>>
           /\ cms[TargetAuthConfigLoc].st = "ok"
                 => out.syncs = <<DeleteAuthConfig>> /\ out.events = <<evDeletedCM>>
           /\ cms[TargetAuthConfigLoc].st = "notfound"
                 => out.syncs = <<>> /\ out.events = <<>>

\* C27: with the target auth-config configmap absent the pass returns an
\* empty config, no error, no request and no event; with the target present
\* and the syncer taking the request it returns an empty config and no error,
\* with the one delete request (empty source name and namespace) and the one
\* event 'deleted configmap'; when the lookup of the target fails, or the
\* syncer refuses the request, it returns the existing config and one error,
\* without request or event.
C27_Reset ==
    AuthConfigResetPass
        => /\ cms[TargetAuthConfigLoc].st = "notfound"
                 => /\ out.tree = EmptyTree /\ out.errs = <<>>
                    /\ out.calls = 0 /\ out.syncs = <<>> /\ out.events = <<>>
           /\ (cms[TargetAuthConfigLoc].st = "ok" /\ ~out.syncFails)
                 => /\ out.tree = EmptyTree /\ out.errs = <<>>
                    /\ out.calls = 1
                    /\ out.syncs = <<DeleteAuthConfig>>
                    /\ out.events = <<evDeletedCM>>
           /\ (cms[TargetAuthConfigLoc].st = "ok" /\ out.syncFails)
                 => /\ out.tree = existing /\ out.errs = <<errSync>>
                    /\ out.calls = 1 /\ out.syncs = <<>> /\ out.events = <<>>
           /\ cms[TargetAuthConfigLoc].st = "error"
                 => /\ out.tree = existing /\ out.errs = <<errGetTargetCM>>
                    /\ out.calls = 0 /\ out.syncs = <<>> /\ out.events = <<>>

C27_Witness ==
    /\ AuthConfigResetPass
    /\ cms[TargetAuthConfigLoc].st = "ok"
    /\ ArgPath(argAuthConfig) \in DOMAIN existing
    /\ out.tree = EmptyTree
    /\ out.syncs = <<DeleteAuthConfig>>
    /\ out.events = <<evDeletedCM>>
    /\ out.errs = <<>>
\* ---- C28
\* A pass of the structured variant, gate enabled, over an authentication
\* resource of type OIDC.
AuthConfigOIDCPass ==
    /\ PassDone("authConfig")
    /\ GateOpen
    /\ auth.st = "ok"
    /\ auth.type = "OIDC"
    /\ ~post.mirrored

SourceAuthConfigValid ==
    /\ cms[SourceAuthConfigLoc].st = "ok"
    /\ authConfigKeyName \in DOMAIN cms[SourceAuthConfigLoc].data
    /\ cms[SourceAuthConfigLoc].data[authConfigKeyName] # ""

AuthConfigFragment ==
    [p \in {ArgPath(argAuthConfig)} |-> Slice(<<authConfigFilePath>>)]

CopyAuthConfig == SyncRequest(TargetAuthConfigLoc, SourceAuthConfigLoc)

TargetAuthConfigStale ==
    \/ cms[TargetAuthConfigLoc].st = "notfound"
    \/ /\ cms[TargetAuthConfigLoc].st = "ok"
       /\ cms[TargetAuthConfigLoc].data # cms[SourceAuthConfigLoc].data

\* C28: a pass of the structured variant under type OIDC calls the syncer and
\* builds the authentication-config fragment only when the source auth-config
\* configmap exists with a non-empty auth-config.json; with the source not
\* found it returns the existing config and no error, with the key missing or
\* empty the existing config and one error, both without request or event.
\* With a valid source the copy request is made exactly when the target is
\* absent or its data differs from the source's, and a pass without error
\* returns the fragment.
C28_AuthConfigOIDC ==
    AuthConfigOIDCPass
        => /\ ~SourceAuthConfigValid
                 => /\ out.tree = existing
                    /\ out.calls = 0 /\ out.syncs = <<>> /\ out.events = <<>>
           /\ cms[SourceAuthConfigLoc].st = "notfound" => out.errs = <<>>
           /\ (cms[SourceAuthConfigLoc].st = "ok" /\ ~SourceAuthConfigValid)
                 => out.errs = <<errAuthConfigInvalid>>
           /\ SourceAuthConfigValid
                 => /\ out.calls = IF TargetAuthConfigStale THEN 1 ELSE 0
                    /\ out.syncs = IF TargetAuthConfigStale /\ ~out.syncFails
                                   THEN <<CopyAuthConfig>> ELSE <<>>
                    /\ out.events = IF out.syncs = <<>> THEN <<>> ELSE <<evSyncRequested>>
                    /\ out.tree = IF out.errs = <<>> THEN AuthConfigFragment ELSE existing

C28_Witness ==
    /\ AuthConfigOIDCPass
    /\ SourceAuthConfigValid
    /\ cms[TargetAuthConfigLoc].st = "ok"
    /\ cms[TargetAuthConfigLoc].data # cms[SourceAuthConfigLoc].data
    /\ out.syncs = <<CopyAuthConfig>>
    /\ out.tree = AuthConfigFragment
    /\ out.errs = <<>>
\* ---- C29
RequiredClaimsOf(tree) == tree[ArgPath(oidcRequiredClaimPath)].elems

Reversed(s) == [i \in 1..Len(s) |-> s[Len(s) + 1 - i]]

\* C29: a successful OIDC pass over n >= 1 claim validation rules returns at
\* oidc-required-claim a sequence of n strings, the i-th being
\* '<claim>=<requiredValue>' of the i-th rule; over an existing config that
\* holds the same strings in another order the pass returns a different
\* config and records the configuration change.
C29_RequiredClaimOrder ==
    (SuccessfulOIDCPass /\ OneProvider /\ Len(auth.providers[1].rules) >= 1)
        => LET rules == auth.providers[1].rules
               path == ArgPath(oidcRequiredClaimPath)
           IN  /\ path \in DOMAIN out.tree
               /\ out.tree[path].kind = "slice"
               /\ Len(RequiredClaimsOf(out.tree)) = Len(rules)
               /\ \A i \in 1..Len(rules) :
                     RequiredClaimsOf(out.tree)[i]
                         = rules[i].claim \o "=" \o rules[i].value
               /\ ( /\ path \in DOMAIN existing
                    /\ SeqToSet(RequiredClaimsOf(existing)) = SeqToSet(RequiredClaimsOf(out.tree))
                    /\ RequiredClaimsOf(existing) # RequiredClaimsOf(out.tree) )
                     => /\ out.tree # existing
                        /\ out.changed
                        /\ CountOf(out.events, evChanged) = 1

\* The rules of the base provider in reverse order, over the base config.
C29_Witness ==
    /\ SuccessfulOIDCPass
    /\ OneProvider
    /\ auth.providers[1].rules = Reversed(BaseProvider.rules)
    /\ existing = BaseConfig
    /\ RequiredClaimsOf(existing) = <<"username=test", "email=test">>
    /\ RequiredClaimsOf(out.tree) = <<"email=test", "username=test">>
    /\ out.events = <<evChanged>>
\* ---- C30
\* One step of a chain of RoleBindingRestriction passes: a pass over an
\* authentication resource that is there returns every entry of the existing
\* disable-admission-plugins, and both plugins under a type other than
\* IntegratedOAuth and empty; the driver hands the returned config on as the
\* existing config of the next pass.
C30_StickyStep ==
    /\ (out'.obs = "rbr" /\ auth'.st # "notfound")
          => DisabledIn(existing') \subseteq DisabledIn(out'.tree)
    /\ (out'.obs = "rbr" /\ auth'.st = "ok"
           /\ auth'.type \notin {"IntegratedOAuth", ""} /\ out'.errs = <<>>)
          => SeqToSet(rbrPlugins) \subseteq DisabledIn(out'.tree)
    /\ (out.obs = "rbr" /\ out'.obs = "none")
          => DisabledIn(existing') = DisabledIn(out.tree)

\* C30: along every chain of RoleBindingRestriction passes in which the
\* returned config becomes the next existing config and the authentication
\* resource is there, the entries of disable-admission-plugins never get
\* fewer; the two plugins, once added under another type, stay in the output
\* after the type is IntegratedOAuth or empty again.
C30_Stickiness == [][C30_StickyStep]_vars

\* The type is IntegratedOAuth again after a pass added the two plugins, and
\* the pass returns them.
C30_Witness ==
    /\ RBRPass
    /\ auth.type = "IntegratedOAuth"
    /\ edits = 1
    /\ DisabledIn(existing) = SeqToSet(rbrPlugins)
    /\ DisabledIn(out.tree) = SeqToSet(rbrPlugins)
    /\ out.errs = <<>>

====
